---- MODULE Spec2Model ----
(***************************************************************************)
(* Model of the MoneyTracker smart categorization engine                   *)
(* (SmartCategorizationEngine, smart-categorization.js) together with the  *)
(* application operations that edit the same transaction objects           *)
(* (MoneyTrackerApp.categorizeTransaction, MoneyTrackerApp.confirmSplit).  *)
(*                                                                         *)
(* Conventions                                                             *)
(*  - a JavaScript string is a sequence of one-character strings;          *)
(*  - null / undefined categoryId is NULL (category ids are IndexedDB      *)
(*    auto-increment keys, hence >= 1);                                    *)
(*  - an optional object property is a sequence of length 0 (absent,       *)
(*    `delete obj.prop`) or 1 (present, holding the value);                *)
(*  - amounts are whole numbers, and a non-integral number (a similarity,  *)
(*    a confidence) is an exact fraction [num, den] in lowest terms.       *)
(***************************************************************************)
EXTENDS Integers, Sequences, FiniteSets, TLC

(***************************************************************************)
(* Characters and strings                                                  *)
(***************************************************************************)
UpperCase == <<"A","B","C","D","E","F","G","H","I","J","K","L","M",
               "N","O","P","Q","R","S","T","U","V","W","X","Y","Z">>

LowerCase == <<"a","b","c","d","e","f","g","h","i","j","k","l","m",
               "n","o","p","q","r","s","t","u","v","w","x","y","z">>

Digits == {"0","1","2","3","4","5","6","7","8","9"}

Range(s) == {s[i] : i \in DOMAIN s}

\* the characters \s matches
Spaces == {" ", "\t"}

\* the characters [A-Z0-9] matches
UpperOrDigit == Range(UpperCase) \cup Digits

\* String.prototype.toLowerCase on one character
LowerChar(c) ==
    IF c \in Range(UpperCase)
    THEN LowerCase[CHOOSE i \in DOMAIN UpperCase : UpperCase[i] = c]
    ELSE c

toLowerCase(s) == [i \in DOMAIN s |-> LowerChar(s[i])]

\* s.substring(from - 1): the characters of s from position `from` on
Drop(s, n) == SubSeq(s, n + 1, Len(s))

Take(s, n) == SubSeq(s, 1, n)

\* number of leading characters of s that are in class
LeadCount(s, class) ==
    CHOOSE n \in 0..Len(s) :
        /\ \A i \in 1..n : s[i] \in class
        /\ (n = Len(s) \/ s[n + 1] \notin class)

\* number of trailing characters of s that are in class
TrailCount(s, class) ==
    CHOOSE n \in 0..Len(s) :
        /\ \A i \in (Len(s) - n + 1)..Len(s) : s[i] \in class
        /\ (n = Len(s) \/ s[Len(s) - n] \notin class)

\* String.prototype.trim
trim(s) ==
    LET a == Drop(s, LeadCount(s, Spaces))
    IN  Take(a, Len(a) - TrailCount(a, Spaces))

\* s starts with p, compared case-insensitively (regex flag i)
StartsWithI(s, p) ==
    Len(s) >= Len(p) /\ toLowerCase(Take(s, Len(p))) = toLowerCase(p)

\* String.prototype.includes
includes(s, p) ==
    \E i \in 0..(Len(s) - Len(p)) : SubSeq(s, i + 1, i + Len(p)) = p

(***************************************************************************)
(* normalizeMerchant: the cleanup regular expressions, in source order     *)
(***************************************************************************)
\* /#\d+/g : every '#' that is followed by digits goes, with its digits
RECURSIVE StripStoreNumbers(_)
StripStoreNumbers(s) ==
    IF s = <<>> THEN <<>>
    ELSE IF s[1] = "#" /\ Len(s) >= 2 /\ s[2] \in Digits
         THEN StripStoreNumbers(Drop(s, 1 + LeadCount(Tail(s), Digits)))
         ELSE <<s[1]>> \o StripStoreNumbers(Tail(s))

\* the suffix shape  \s+ <unit> \s* $  shared by three of the patterns:
\* s minus trailing blanks, minus a unit of unitLen characters, must be
\* preceded by blanks; the blanks, the unit and the trailing blanks go
StripSuffix(s, unitLen, ok) ==
    LET body == Take(s, Len(s) - TrailCount(s, Spaces))
        rest == Take(body, Len(body) - unitLen)
        ws   == TrailCount(rest, Spaces)
    IN  IF ok /\ unitLen <= Len(body) /\ ws >= 1
        THEN Take(rest, Len(rest) - ws)
        ELSE s

TrimmedEnd(s) == Take(s, Len(s) - TrailCount(s, Spaces))

\* /\s+\d{3,5}\s*$/
StripTrailingNumber(s) ==
    LET n == TrailCount(TrimmedEnd(s), Digits)
    IN  StripSuffix(s, n, n >= 3 /\ n <= 5)

StateCodes ==
    { <<"a","l">>, <<"a","k">>, <<"a","z">>, <<"a","r">>, <<"c","a">>,
      <<"c","o">>, <<"c","t">>, <<"d","e">>, <<"f","l">>, <<"g","a">>,
      <<"h","i">>, <<"i","d">>, <<"i","l">>, <<"i","n">>, <<"i","a">>,
      <<"k","s">>, <<"k","y">>, <<"l","a">>, <<"m","e">>, <<"m","d">>,
      <<"m","a">>, <<"m","i">>, <<"m","n">>, <<"m","s">>, <<"m","o">>,
      <<"m","t">>, <<"n","e">>, <<"n","v">>, <<"n","h">>, <<"n","j">>,
      <<"n","m">>, <<"n","y">>, <<"n","c">>, <<"n","d">>, <<"o","h">>,
      <<"o","k">>, <<"o","r">>, <<"p","a">>, <<"r","i">>, <<"s","c">>,
      <<"s","d">>, <<"t","n">>, <<"t","x">>, <<"u","t">>, <<"v","t">>,
      <<"v","a">>, <<"w","a">>, <<"w","v">>, <<"w","i">>, <<"w","y">> }

\* /\s+(AL|AK|...|WY)\s*$/i
StripStateCode(s) ==
    LET body == TrimmedEnd(s)
    IN  StripSuffix(s, 2,
            Len(body) >= 2
            /\ toLowerCase(SubSeq(body, Len(body) - 1, Len(body))) \in StateCodes)

\* /\s+[A-Z0-9]{8,}\s*$/
StripTrailingReference(s) ==
    LET n == TrailCount(TrimmedEnd(s), UpperOrDigit)
    IN  StripSuffix(s, n, n >= 8)

\* a prefix pattern is a sequence of items: a literal (matched ignoring
\* case), "\s*" or "\s+"; PrefixEnd is the number of characters the pattern
\* consumes at the start of s, or -1 when it does not match
RECURSIVE PrefixEnd(_, _)
PrefixEnd(s, items) ==
    IF items = <<>> THEN 0
    ELSE LET it == Head(items)
             ws == LeadCount(s, Spaces)
             n  == IF it.kind = "lit"
                   THEN (IF StartsWithI(s, it.text) THEN Len(it.text) ELSE -1)
                   ELSE (IF it.kind = "ws+" /\ ws = 0 THEN -1 ELSE ws)
             r  == IF n = -1 THEN -1 ELSE PrefixEnd(Drop(s, n), Tail(items))
         IN  IF r = -1 THEN -1 ELSE n + r

StripPrefix(s, items) ==
    LET n == PrefixEnd(s, items) IN IF n = -1 THEN s ELSE Drop(s, n)

Lit(t) == [kind |-> "lit", text |-> t]
WsStar == [kind |-> "ws*", text |-> <<>>]
WsPlus == [kind |-> "ws+", text |-> <<>>]

\* /^TST\*\s*/i, /^SQ\s*\*\s*/i, /^AMZN\s+MKTP\s+US\*/i, /^POS\s+/i,
\* /^DEBIT\s+/i, /^CREDIT\s+/i
PrefixPatterns ==
    << <<Lit(<<"T","S","T","*">>), WsStar>>,
       <<Lit(<<"S","Q">>), WsStar, Lit(<<"*">>), WsStar>>,
       <<Lit(<<"A","M","Z","N">>), WsPlus, Lit(<<"M","K","T","P">>), WsPlus,
         Lit(<<"U","S","*">>)>>,
       <<Lit(<<"P","O","S">>), WsPlus>>,
       <<Lit(<<"D","E","B","I","T">>), WsPlus>>,
       <<Lit(<<"C","R","E","D","I","T">>), WsPlus>> >>

RECURSIVE StripPrefixes(_, _)
StripPrefixes(s, pats) ==
    IF pats = <<>> THEN s
    ELSE StripPrefixes(StripPrefix(s, Head(pats)), Tail(pats))

\* length of a match of  \d{1,2} sep \d{1,2} sep \d{2,4}  at the start of
\* s, or 0 when there is none
DateEnd(s, sep) ==
    LET d1 == LeadCount(s, Digits)
        s2 == Drop(s, d1 + 1)
        d2 == LeadCount(s2, Digits)
        s3 == Drop(s2, d2 + 1)
        d3 == LeadCount(s3, Digits)
    IN  IF /\ d1 \in 1..2 /\ Len(s) > d1 /\ s[d1 + 1] = sep
           /\ d2 \in 1..2 /\ Len(s2) > d2 /\ s2[d2 + 1] = sep
           /\ d3 >= 2
        THEN d1 + 1 + d2 + 1 + (IF d3 > 4 THEN 4 ELSE d3)
        ELSE 0

\* /\s+\d{1,2}\/\d{1,2}\/\d{2,4}/g and /\s+\d{1,2}-\d{1,2}-\d{2,4}/g
RECURSIVE StripDates(_, _)
StripDates(s, sep) ==
    IF s = <<>> THEN <<>>
    ELSE LET ws == LeadCount(s, Spaces)
             n  == DateEnd(Drop(s, ws), sep)
         IN  IF ws >= 1 /\ n > 0
             THEN StripDates(Drop(s, ws + n), sep)
             ELSE <<s[1]>> \o StripDates(Tail(s), sep)

cleanupPatterns(s) ==
    LET a == StripStateCode(StripTrailingNumber(StripStoreNumbers(s)))
        b == StripTrailingReference(StripPrefixes(a, PrefixPatterns))
    IN  StripDates(StripDates(b, "/"), "-")


\* RegExp.prototype.test for an unanchored pattern given as prefix items
TestPattern(s, items) ==
    \E i \in 0..Len(s) : PrefixEnd(Drop(s, i), items) # -1

merchantMappings ==
    << [pattern |-> <<Lit(<<"w","a","l","m","a","r","t">>)>>,
        name |-> <<"W","a","l","m","a","r","t">>],
       [pattern |-> <<Lit(<<"t","a","r","g","e","t">>)>>,
        name |-> <<"T","a","r","g","e","t">>],
       [pattern |-> <<Lit(<<"s","t","a","r","b","u","c","k","s">>)>>,
        name |-> <<"S","t","a","r","b","u","c","k","s">>],
       [pattern |-> <<Lit(<<"a","m","a","z","o","n">>)>>,
        name |-> <<"A","m","a","z","o","n">>],
       [pattern |-> <<Lit(<<"n","e","t","f","l","i","x">>)>>,
        name |-> <<"N","e","t","f","l","i","x">>],
       [pattern |-> <<Lit(<<"s","p","o","t","i","f","y">>)>>,
        name |-> <<"S","p","o","t","i","f","y">>],
       [pattern |-> <<Lit(<<"s","h","e","l","l">>)>>,
        name |-> <<"S","h","e","l","l">>],
       [pattern |-> <<Lit(<<"c","h","e","v","r","o","n">>)>>,
        name |-> <<"C","h","e","v","r","o","n">>],
       [pattern |-> <<Lit(<<"c","o","s","t","c","o">>)>>,
        name |-> <<"C","o","s","t","c","o">>],
       [pattern |-> <<Lit(<<"s","a","f","e","w","a","y">>)>>,
        name |-> <<"S","a","f","e","w","a","y">>],
       [pattern |-> <<Lit(<<"k","r","o","g","e","r">>)>>,
        name |-> <<"K","r","o","g","e","r">>],
       [pattern |-> <<Lit(<<"w","h","o","l","e">>), WsStar,
                      Lit(<<"f","o","o","d","s">>)>>,
        name |-> <<"W","h","o","l","e"," ","F","o","o","d","s">>],
       [pattern |-> <<Lit(<<"t","r","a","d","e","r">>), WsStar,
                      Lit(<<"j","o","e">>)>>,
        name |-> <<"T","r","a","d","e","r"," ","J","o","e","s">>],
       [pattern |-> <<Lit(<<"h","o","m","e">>), WsStar,
                      Lit(<<"d","e","p","o","t">>)>>,
        name |-> <<"H","o","m","e"," ","D","e","p","o","t">>],
       [pattern |-> <<Lit(<<"l","o","w","e","s">>)>>,
        name |-> <<"L","o","w","e","s">>],
       [pattern |-> <<Lit(<<"b","e","s","t">>), WsStar, Lit(<<"b","u","y">>)>>,
        name |-> <<"B","e","s","t"," ","B","u","y">>] >>

\* normalized.replace(/\s+/g, ' ')
RECURSIVE CollapseSpaces(_)
CollapseSpaces(s) ==
    IF s = <<>> THEN <<>>
    ELSE LET ws == LeadCount(s, Spaces)
         IN  IF ws >= 1 THEN <<" ">> \o CollapseSpaces(Drop(s, ws))
             ELSE <<s[1]>> \o CollapseSpaces(Tail(s))

\* normalized.split(/\s{2,}|\t/)[0]: the part before the first run of two
\* or more blanks, or the first tab
RECURSIVE FirstPart(_)
FirstPart(s) ==
    IF s = <<>> THEN <<>>
    ELSE IF LeadCount(s, Spaces) >= 2 \/ s[1] = "\t" THEN <<>>
         ELSE <<s[1]>> \o FirstPart(Tail(s))

MaxMerchantLength == 40

normalizeMerchant(description) ==
    IF description = <<>> THEN <<>>
    ELSE LET cleaned == cleanupPatterns(trim(description))
             hits    == {i \in DOMAIN merchantMappings :
                            TestPattern(cleaned, merchantMappings[i].pattern)}
             part    == FirstPart(trim(CollapseSpaces(cleaned)))
         IN  IF hits # {}
             THEN merchantMappings[CHOOSE i \in hits : \A j \in hits : i <= j].name
             ELSE IF Len(part) > MaxMerchantLength
                  THEN trim(Take(part, MaxMerchantLength))
                  ELSE part

(***************************************************************************)
(* Exact fractions                                                         *)
(***************************************************************************)
RECURSIVE GCD(_, _)
GCD(a, b) == IF b = 0 THEN a ELSE GCD(b, a % b)

Abs(x) == IF x < 0 THEN -x ELSE x

Min(a, b) == IF a <= b THEN a ELSE b

Max(a, b) == IF a >= b THEN a ELSE b

\* n / d in lowest terms, d > 0
Frac(n, d) ==
    LET g == GCD(Abs(n), d) IN [num |-> n \div g, den |-> d \div g]

FracAdd(a, b) == Frac(a.num * b.den + b.num * a.den, a.den * b.den)

FracLess(a, b) == a.num * b.den < b.num * a.den

FracLeq(a, b) == a.num * b.den <= b.num * a.den

Int2Frac(n) == [num |-> n, den |-> 1]

(***************************************************************************)
(* calculateSimilarity and levenshteinDistance                             *)
(***************************************************************************)
\* one row of the matrix, filled left to right: prev is row i - 1, cur the
\* cells of row i filled so far (cell j is at index j + 1), c = str2[i]
RECURSIVE LevRow(_, _, _, _)
LevRow(str1, c, prev, cur) ==
    LET j == Len(cur)
    IN  IF j > Len(str1) THEN cur
        ELSE LevRow(str1, c, prev,
                 Append(cur,
                     IF c = str1[j] THEN prev[j]
                     ELSE Min(prev[j] + 1, Min(cur[j] + 1, prev[j + 1] + 1))))

RECURSIVE LevRows(_, _, _, _)
LevRows(str1, str2, i, prev) ==
    IF i > Len(str2) THEN prev[Len(str1) + 1]
    ELSE LevRows(str1, str2, i + 1, LevRow(str1, str2[i], prev, <<i>>))

levenshteinDistance(str1, str2) ==
    LevRows(str1, str2, 1, [j \in 1..(Len(str1) + 1) |-> j - 1])

\* mutant: containment is tested in one direction only
calculateSimilarity_OneWayIncludes(str1, str2) ==
    IF str1 = <<>> \/ str2 = <<>> THEN Int2Frac(0)
    ELSE LET s1 == toLowerCase(str1)
             s2 == toLowerCase(str2)
             maxLen == Max(Len(s1), Len(s2))
             distance == levenshteinDistance(s1, s2)
         IN  IF s1 = s2 THEN Int2Frac(100)
             ELSE IF includes(s1, s2) THEN Int2Frac(85)
             ELSE LET similarity == Frac((maxLen - distance) * 100, maxLen)
                  IN  IF FracLess(similarity, Int2Frac(0)) THEN Int2Frac(0)
                      ELSE similarity

\* the result as an exact fraction (0..100)
calculateSimilarity(str1, str2) ==
    IF str1 = <<>> \/ str2 = <<>> THEN Int2Frac(0)
    ELSE LET s1 == toLowerCase(str1)
             s2 == toLowerCase(str2)
             maxLen == Max(Len(s1), Len(s2))
             distance == levenshteinDistance(s1, s2)
         IN  IF s1 = s2 THEN Int2Frac(100)
             ELSE IF includes(s1, s2) \/ includes(s2, s1) THEN Int2Frac(85)
             ELSE LET similarity == Frac((maxLen - distance) * 100, maxLen)
                  IN  IF FracLess(similarity, Int2Frac(0)) THEN Int2Frac(0)
                      ELSE similarity


(***************************************************************************)
(* The descriptions that occur in the modelled histories, and the results  *)
(* of normalizeMerchant and calculateSimilarity on them, computed once     *)
(***************************************************************************)
Walmart1234 == <<"W","A","L","M","A","R","T"," ","#","1","2","3","4">>

Walmart9981 == <<"W","A","L","M","A","R","T"," ","#","9","9","8","1">>

Wax == <<"w","a","x">>

\* a merchant that shares no letter with the others
Kfc == <<"K","F","C">>

Descriptions == {Walmart1234, Walmart9981, Wax, Kfc}

MerchantTable == [d \in Descriptions |-> normalizeMerchant(d)]

MerchantNames == {MerchantTable[d] : d \in Descriptions}

SimilarityTable ==
    [pair \in MerchantNames \X MerchantNames |->
        calculateSimilarity(pair[1], pair[2])]

\* the two tables, filled when the engine is constructed and never changed
VARIABLE memo

\* this.normalizeMerchant(description)
Merchant(description) == memo.merchant[description]

\* this.calculateSimilarity(str1, str2)
Similarity(str1, str2) == memo.similarity[<<str1, str2>>]

(***************************************************************************)
(* Records                                                                 *)
(***************************************************************************)
NULL == 0

\* an optional property: absent, or present with value v
Absent == <<>>

Present(v) == <<v>>

\* JavaScript truthiness of an optional property holding TRUE or an id
Truthy(prop) == prop # Absent

\* Math.abs(transaction.amount)
AbsAmount(t) == Abs(t.amount)

\* new Date(t.date).getDate()
getDate(t) == t.date.day

\* Array.prototype.filter, keeping the order
RECURSIVE Filter(_, _)
Filter(seq, keep) ==
    IF seq = <<>> THEN <<>>
    ELSE (IF Head(seq) \in keep THEN <<Head(seq)>> ELSE <<>>)
         \o Filter(Tail(seq), keep)

RECURSIVE SeqSum(_)
SeqSum(seq) == IF seq = <<>> THEN 0 ELSE Head(seq) + SeqSum(Tail(seq))

SeqMin(seq) == CHOOSE x \in Range(seq) : \A y \in Range(seq) : x <= y

SeqMax(seq) == CHOOSE x \in Range(seq) : \A y \in Range(seq) : x >= y

(***************************************************************************)
(* detectRecurringPattern                                                  *)
(***************************************************************************)
SimilarityThreshold == 70

DayTolerance == 3

detectRecurringPattern(transaction, historicalTransactions) ==
    LET amount == AbsAmount(transaction)
        merchantName == Merchant(transaction.description)
        IsSimilar(t) ==
            /\ 10 * Abs(AbsAmount(t) - amount) <= amount
            /\ FracLess(Int2Frac(SimilarityThreshold),
                   Similarity(merchantName, Merchant(t.description)))
            /\ t.id # transaction.id
        similarTransactions ==
            Filter(historicalTransactions,
                   {t \in Range(historicalTransactions) : IsSimilar(t)})
        n == Len(similarTransactions)
        dayOfMonth == [i \in 1..n |-> getDate(similarTransactions[i])]
        \* |day - sum / n| <= 3, with both sides multiplied by n
        dayVariance ==
            \A i \in 1..n :
                Abs(dayOfMonth[i] * n - SeqSum(dayOfMonth)) <= DayTolerance * n
    IN  IF n < 2 THEN [isRecurring |-> FALSE, pattern |-> "null"]
        ELSE IF dayVariance /\ n >= 2
             THEN [isRecurring |-> TRUE, pattern |-> "monthly"]
             ELSE [isRecurring |-> FALSE, pattern |-> "null"]

(***************************************************************************)
(* minePatterns: grouping and pattern construction                         *)
(***************************************************************************)
\* mutant: the filter does not test pendingReview
IsMinable_CountsPending(t) ==
    t.categoryId # NULL /\ ~t.isSplit

\* transactions.filter(t => t.categoryId && !t.isSplit && !t.pendingReview)
IsMinable(t) ==
    t.categoryId # NULL /\ ~t.isSplit /\ ~Truthy(t.pendingReview)

\* the forEach that fills patternMap; a Map keeps its keys in insertion
\* order, so the map is a sequence of groups
RECURSIVE GroupTransactions(_, _)
GroupTransactions(txs, patternMap) ==
    IF txs = <<>> THEN patternMap
    ELSE LET transaction == Head(txs)
             merchantName == Merchant(transaction.description)
             hit == {k \in DOMAIN patternMap :
                        /\ patternMap[k].merchantName = merchantName
                        /\ patternMap[k].categoryId = transaction.categoryId}
             withKey ==
                 IF hit # {} THEN patternMap
                 ELSE Append(patternMap,
                             [merchantName |-> merchantName,
                              categoryId   |-> transaction.categoryId,
                              transactions |-> <<>>,
                              amounts      |-> <<>>])
             k == CHOOSE k \in DOMAIN withKey :
                      /\ withKey[k].merchantName = merchantName
                      /\ withKey[k].categoryId = transaction.categoryId
         IN  IF merchantName = <<>>
             THEN GroupTransactions(Tail(txs), patternMap)
             ELSE GroupTransactions(Tail(txs),
                      [withKey EXCEPT
                          ![k].transactions = Append(@, transaction),
                          ![k].amounts = Append(@, AbsAmount(transaction))])

\* the pattern object built from one group (it has no id yet)
\* mutant: amountMax is taken with Math.min as well
MinedPattern_MaxIsMin(data) ==
    LET recurrence ==
            detectRecurringPattern(data.transactions[1], data.transactions)
    IN  [id                |-> NULL,
         merchantName      |-> data.merchantName,
         categoryId        |-> data.categoryId,
         matchCount        |-> Len(data.transactions),
         acceptCount       |-> Len(data.transactions),
         denyCount         |-> 0,
         amountMin         |-> SeqMin(data.amounts),
         amountMax         |-> SeqMin(data.amounts),
         isRecurring       |-> recurrence.isRecurring,
         recurrencePattern |-> recurrence.pattern]

MinedPattern(data) ==
    LET recurrence ==
            detectRecurringPattern(data.transactions[1], data.transactions)
    IN  [id                |-> NULL,
         merchantName      |-> data.merchantName,
         categoryId        |-> data.categoryId,
         matchCount        |-> Len(data.transactions),
         acceptCount       |-> Len(data.transactions),
         denyCount         |-> 0,
         amountMin         |-> SeqMin(data.amounts),
         amountMax         |-> SeqMax(data.amounts),
         isRecurring       |-> recurrence.isRecurring,
         recurrencePattern |-> recurrence.pattern]

\* the patterns minePatterns computes from its argument and returns
MinedPatterns(txs) ==
    LET categorizedTransactions ==
            Filter(txs, {t \in Range(txs) : IsMinable(t)})
        patternMap == GroupTransactions(categorizedTransactions, <<>>)
    IN  [k \in DOMAIN patternMap |-> MinedPattern(patternMap[k])]


(***************************************************************************)
(* The pattern store (db.getPatterns / addPattern / updatePattern) and the *)
(* transaction store (db.updateTransaction).  A store is a sequence whose  *)
(* index is the record's auto-increment id; nothing is ever deleted.       *)
(***************************************************************************)
getPatterns(db) == db

\* store.add: the record gets the next id
addPattern(db, pattern) ==
    Append(db, [pattern EXCEPT !.id = Len(db) + 1])

\* store.put: the record with the same id is replaced
updatePattern(db, pattern) ==
    IF pattern.id \in DOMAIN db THEN [db EXCEPT ![pattern.id] = pattern]
    ELSE db

updateTransaction(db, transaction) ==
    IF transaction.id \in DOMAIN db
    THEN [db EXCEPT ![transaction.id] = transaction]
    ELSE db

(***************************************************************************)
(* updatePatternsInDatabase                                                *)
(***************************************************************************)
\* existing.amountMin || Infinity, then Math.min with the mined minimum:
\* a stored 0 is falsy and counts as Infinity
MergedAmountMin(existingMin, newMin) ==
    IF existingMin = 0 THEN newMin ELSE Min(existingMin, newMin)

\* Math.max(existing.amountMax || 0, newPattern.amountMax)
MergedAmountMax(existingMax, newMax) ==
    Max(IF existingMax = 0 THEN 0 ELSE existingMax, newMax)

\* mutant: the mined pattern replaces the stored one, keeping only its id
MergePattern_Replaces(existing, newPattern) ==
    [newPattern EXCEPT
        !.id        = existing.id,
        !.amountMin = MergedAmountMin(existing.amountMin, newPattern.amountMin),
        !.amountMax = MergedAmountMax(existing.amountMax, newPattern.amountMax)]

\* mutant: matchCount is summed instead of replaced
MergePattern_SumsMatchCount(existing, newPattern) ==
    [existing EXCEPT
        !.matchCount        = existing.matchCount + newPattern.matchCount,
        !.amountMin         = MergedAmountMin(existing.amountMin,
                                              newPattern.amountMin),
        !.amountMax         = MergedAmountMax(existing.amountMax,
                                              newPattern.amountMax),
        !.isRecurring       = newPattern.isRecurring,
        !.recurrencePattern = newPattern.recurrencePattern]

\* the assignments of the `if (existing)` branch
MergePattern(existing, newPattern) ==
    [existing EXCEPT
        !.matchCount        = newPattern.matchCount,
        !.amountMin         = MergedAmountMin(existing.amountMin,
                                              newPattern.amountMin),
        !.amountMax         = MergedAmountMax(existing.amountMax,
                                              newPattern.amountMax),
        !.isRecurring       = newPattern.isRecurring,
        !.recurrencePattern = newPattern.recurrencePattern]

\* mutant: the comparison never succeeds, so find returns undefined
FindExisting_Never(existingPatterns, newPattern) == 0

\* index in existingPatterns of the first pattern with the same merchant
\* and category (Array.prototype.find), 0 when there is none
FindExisting(existingPatterns, newPattern) ==
    LET hits == {i \in DOMAIN existingPatterns :
                    /\ existingPatterns[i].merchantName = newPattern.merchantName
                    /\ existingPatterns[i].categoryId = newPattern.categoryId}
    IN  IF hits = {} THEN 0 ELSE CHOOSE i \in hits : \A j \in hits : i <= j

\* the for loop: existingPatterns is the snapshot read once before the loop
\* (its objects are updated in place), db the store written as it goes
RECURSIVE MergeLoop(_, _, _)
MergeLoop(newPatterns, existingPatterns, db) ==
    IF newPatterns = <<>> THEN db
    ELSE LET newPattern == Head(newPatterns)
             i == FindExisting(existingPatterns, newPattern)
             merged == MergePattern(existingPatterns[i], newPattern)
         IN  IF i # 0
             THEN MergeLoop(Tail(newPatterns),
                            [existingPatterns EXCEPT ![i] = merged],
                            updatePattern(db, merged))
             ELSE MergeLoop(Tail(newPatterns), existingPatterns,
                            addPattern(db, newPattern))

\* mutant: a stored pattern that was not mined again gets matchCount 0
updatePatternsInDatabase_ResetsStale(db, newPatterns) ==
    LET merged == MergeLoop(newPatterns, getPatterns(db), db)
    IN  [i \in DOMAIN merged |->
            IF \E k \in DOMAIN newPatterns :
                   /\ newPatterns[k].merchantName = merged[i].merchantName
                   /\ newPatterns[k].categoryId = merged[i].categoryId
            THEN merged[i]
            ELSE [merged[i] EXCEPT !.matchCount = 0]]

\* the store after updatePatternsInDatabase(newPatterns)
updatePatternsInDatabase(db, newPatterns) ==
    MergeLoop(newPatterns, getPatterns(db), db)

(***************************************************************************)
(* calculateConfidence                                                     *)
(***************************************************************************)
MatchScoreCap == 40

MatchScoreStep == 5

SimilarityWeight == 30

ExactAmountScore == 20

InRangeScore == 15

CloseToRangeScore == 10

RecurringScore == 10

HighAcceptBonus == 10

LowAcceptPenalty == 20

\* Factor 3; the pattern's range is skipped when either end is falsy
AmountScore(amount, pattern) ==
    IF pattern.amountMin # 0 /\ pattern.amountMax # 0
    THEN LET isExactMatch == amount = pattern.amountMin
             isInRange == amount >= pattern.amountMin /\ amount <= pattern.amountMax
             isCloseToRange == /\ 10 * amount >= 9 * pattern.amountMin
                               /\ 10 * amount <= 11 * pattern.amountMax
         IN  IF isExactMatch THEN ExactAmountScore
             ELSE IF isInRange THEN InRangeScore
             ELSE IF isCloseToRange THEN CloseToRangeScore
             ELSE 0
    ELSE 0

\* mutant: the penalty tests the share of denials instead of acceptances
FeedbackScore_PenaltyOnDenyRatio(pattern) ==
    LET totalFeedback == pattern.acceptCount + pattern.denyCount
    IN  IF totalFeedback > 0
        THEN IF 10 * pattern.acceptCount >= 9 * totalFeedback THEN HighAcceptBonus
             ELSE IF 2 * pattern.denyCount < totalFeedback THEN -LowAcceptPenalty
             ELSE 0
        ELSE 0

\* mutant: a low accept ratio carries no penalty
FeedbackScore_NoPenalty(pattern) ==
    LET totalFeedback == pattern.acceptCount + pattern.denyCount
    IN  IF totalFeedback > 0
        THEN IF 10 * pattern.acceptCount >= 9 * totalFeedback THEN HighAcceptBonus
             ELSE 0
        ELSE 0

\* Factor 5: acceptRatio >= 0.9 gives +10, acceptRatio < 0.5 gives -20
FeedbackScore(pattern) ==
    LET totalFeedback == pattern.acceptCount + pattern.denyCount
    IN  IF totalFeedback > 0
        THEN IF 10 * pattern.acceptCount >= 9 * totalFeedback THEN HighAcceptBonus
             ELSE IF 2 * pattern.acceptCount < totalFeedback THEN -LowAcceptPenalty
             ELSE 0
        ELSE 0

\* the sum of the five factors before the final clamp
RawConfidence(transaction, pattern) ==
    LET matchScore == Min(MatchScoreCap, pattern.matchCount * MatchScoreStep)
        merchantName == Merchant(transaction.description)
        similarityScore == Similarity(merchantName, pattern.merchantName)
        whole == matchScore
                 + AmountScore(AbsAmount(transaction), pattern)
                 + (IF pattern.isRecurring THEN RecurringScore ELSE 0)
                 + FeedbackScore(pattern)
    IN  FracAdd(Int2Frac(whole),
                Frac(similarityScore.num * SimilarityWeight,
                     similarityScore.den * 100))

\* mutant: Math.max(0, confidence), the upper clamp is missing
Clamp_NoUpper(confidence) ==
    IF FracLess(confidence, Int2Frac(0)) THEN Int2Frac(0) ELSE confidence

\* Math.max(0, Math.min(100, confidence))
Clamp(confidence) ==
    IF FracLess(confidence, Int2Frac(0)) THEN Int2Frac(0)
    ELSE IF FracLess(Int2Frac(100), confidence) THEN Int2Frac(100)
    ELSE confidence

calculateConfidence(transaction, pattern) ==
    Clamp(RawConfidence(transaction, pattern))


(***************************************************************************)
(* generateReasoning and findBestMatch                                     *)
(***************************************************************************)
ExactSimilarity == 95

Fragment(kind, pattern) ==
    [kind |-> kind, merchantName |-> pattern.merchantName,
     count |-> pattern.matchCount]

\* the fragments that parts.join(', ') concatenates, in order
generateReasoning(transaction, pattern) ==
    LET merchantName == Merchant(transaction.description)
        similarity == Similarity(merchantName, pattern.merchantName)
        amount == AbsAmount(transaction)
    IN  (IF FracLess(Int2Frac(ExactSimilarity), similarity)
         THEN <<Fragment("Exact match with", pattern)>>
         ELSE IF FracLess(Int2Frac(SimilarityThreshold), similarity)
              THEN <<Fragment("Similar to", pattern)>>
              ELSE <<>>)
        \o (IF pattern.matchCount = 1
            THEN <<Fragment("1 similar transaction", pattern)>>
            ELSE IF pattern.matchCount > 1
                 THEN <<Fragment("similar transactions", pattern)>>
                 ELSE <<>>)
        \o (IF pattern.isRecurring
            THEN <<Fragment("recurring transaction", pattern)>> ELSE <<>>)
        \o (IF pattern.amountMin # 0 /\ amount = pattern.amountMin
            THEN <<Fragment("exact amount match", pattern)>> ELSE <<>>)

\* the scan over this.patterns: best is Absent (bestMatch = null) or the
\* match kept so far, bestConfidence the highest confidence so far
RECURSIVE BestMatchLoop(_, _, _, _)
BestMatchLoop(transaction, pats, best, bestConfidence) ==
    IF pats = <<>> THEN best
    ELSE LET pattern == Head(pats)
             confidence == calculateConfidence(transaction, pattern)
         IN  IF FracLess(bestConfidence, confidence)
             THEN BestMatchLoop(transaction, Tail(pats),
                      Present([pattern    |-> pattern,
                               confidence |-> confidence,
                               reasoning  |-> generateReasoning(transaction,
                                                                pattern)]),
                      confidence)
             ELSE BestMatchLoop(transaction, Tail(pats), best, bestConfidence)

\* Absent for null, Present(match) otherwise
findBestMatch(transaction, pats, threshold) ==
    LET merchantName == Merchant(transaction.description)
        bestMatch == BestMatchLoop(transaction, pats, Absent, Int2Frac(0))
    IN  IF merchantName = <<>> THEN Absent
        ELSE IF bestMatch # Absent
                /\ FracLeq(Int2Frac(threshold), bestMatch[1].confidence)
             THEN bestMatch
             ELSE Absent

(***************************************************************************)
(* The engine's operations on one transaction object                       *)
(***************************************************************************)
\* mutant: the loop skips categorized transactions but not split ones
Categorize_IgnoresSplit(transaction, pats, threshold) ==
    LET match == findBestMatch(transaction, pats, threshold)
    IN  IF transaction.categoryId # NULL
        THEN transaction
        ELSE IF match # Absent
             THEN [transaction EXCEPT
                      !.categoryId           = match[1].pattern.categoryId,
                      !.pendingReview        = Present(TRUE),
                      !.suggestionConfidence = Present(match[1].confidence),
                      !.suggestionReasoning  = Present(match[1].reasoning),
                      !.suggestionPatternId  = Present(match[1].pattern.id)]
             ELSE transaction

\* the body of autoCategorize's loop
Categorize(transaction, pats, threshold) ==
    LET match == findBestMatch(transaction, pats, threshold)
    IN  IF transaction.categoryId # NULL \/ transaction.isSplit
        THEN transaction
        ELSE IF match # Absent
             THEN [transaction EXCEPT
                      !.categoryId           = match[1].pattern.categoryId,
                      !.pendingReview        = Present(TRUE),
                      !.suggestionConfidence = Present(match[1].confidence),
                      !.suggestionReasoning  = Present(match[1].reasoning),
                      !.suggestionPatternId  = Present(match[1].pattern.id)]
             ELSE transaction

\* mutant: suggestionPatternId is not deleted
ClearSuggestion_KeepsPatternId(transaction) ==
    [transaction EXCEPT
        !.pendingReview        = Absent,
        !.suggestionConfidence = Absent,
        !.suggestionReasoning  = Absent]

\* mutant: one of the four delete statements is missing
ClearSuggestion_KeepsReasoning(transaction) ==
    [transaction EXCEPT
        !.pendingReview        = Absent,
        !.suggestionConfidence = Absent,
        !.suggestionPatternId  = Absent]

\* the four `delete transaction.<field>` statements
ClearSuggestion(transaction) ==
    [transaction EXCEPT
        !.pendingReview        = Absent,
        !.suggestionConfidence = Absent,
        !.suggestionReasoning  = Absent,
        !.suggestionPatternId  = Absent]

\* index in this.patterns of the pattern the transaction refers to, 0 when
\* find() returns undefined
FindPattern(pats, transaction) ==
    LET hits == {i \in DOMAIN pats :
                    Present(pats[i].id) = transaction.suggestionPatternId}
    IN  IF hits = {} THEN 0 ELSE CHOOSE i \in hits : \A j \in hits : i <= j


(***************************************************************************)
(* State                                                                   *)
(***************************************************************************)
VARIABLES
    transactions,          \* the transaction objects in memory, by id
    dbTransactions,        \* the persisted transactions, by id
    patterns,              \* this.patterns
    dbPatterns,            \* the persisted patterns, by id
    confidenceThreshold,   \* this.confidenceThreshold
    edits,                 \* number of edits the user made in the application
    lastOp,                \* history: the operation that ran last, its argument
    io,                    \* history: what the last operation asked of the
                           \* store, whether it threw, what it returned
    probe,                 \* a function under test: its inputs and its result
    rulesEngine,           \* the RulesEngine object: this.rules, and the rules
                           \* object store behind this.db with its key generator
    mining                 \* a minePatterns call suspended at an await: its
                           \* local variables; Absent when none is running

vars == <<transactions, dbTransactions, patterns, dbPatterns,
          confidenceThreshold, edits, memo, lastOp, io, probe, rulesEngine,
          mining>>

\* the objects an operation reads and writes while it runs.  credit is the
\* number of writes the store still accepts before it rejects every further
\* one (Absent: it accepts all), log the writes requested so far, failed
\* whether an awaited write was rejected, result the value returned
MemoryWith(credit) ==
    [transactions   |-> transactions,
     dbTransactions |-> dbTransactions,
     patterns       |-> patterns,
     dbPatterns     |-> dbPatterns,
     credit         |-> credit,
     log            |-> <<>>,
     failed         |-> FALSE,
     result         |-> 0]

\* the memory of an operation that runs against a store accepting every write
Memory == MemoryWith(Absent)

(***************************************************************************)
(* The awaited store calls of the engine.  A rejected call leaves the      *)
(* store as it is and rejects the promise the engine awaits.               *)
(***************************************************************************)
Call(name, id, ok) == [call |-> name, id |-> id, ok |-> ok]

Rejects(m) == m.credit = Present(0)

Spend(credit) == IF credit = Absent THEN Absent ELSE Present(credit[1] - 1)

Rejected(m, name, id) ==
    [m EXCEPT !.log = Append(@, Call(name, id, FALSE)), !.failed = TRUE]

\* await this.db.updatePattern(pattern)
AwaitUpdatePattern(m, pattern) ==
    IF Rejects(m) THEN Rejected(m, "updatePattern", pattern.id)
    ELSE [m EXCEPT !.dbPatterns = updatePattern(@, pattern),
                   !.log = Append(@, Call("updatePattern", pattern.id, TRUE)),
                   !.credit = Spend(@)]

\* await this.db.updateTransaction(transaction)
AwaitUpdateTransaction(m, transaction) ==
    IF Rejects(m) THEN Rejected(m, "updateTransaction", transaction.id)
    ELSE [m EXCEPT !.dbTransactions = updateTransaction(@, transaction),
                   !.log = Append(@, Call("updateTransaction",
                                          transaction.id, TRUE)),
                   !.credit = Spend(@)]

(***************************************************************************)
(* acceptSuggestion, denySuggestion, acceptAllPending, autoCategorize and  *)
(* minePatterns as functions on the memory                                 *)
(***************************************************************************)
\* mutant: accepting also resets the category, as denying does
acceptSuggestion_ClearsCategory(m, id) ==
    LET transaction == m.transactions[id]
        i == FindPattern(m.patterns, transaction)
        pats == IF i = 0 THEN m.patterns
                ELSE [m.patterns EXCEPT ![i].acceptCount = @ + 1]
        m1 == IF i = 0 THEN m
              ELSE AwaitUpdatePattern([m EXCEPT !.patterns = pats], pats[i])
        cleared == ClearSuggestion([transaction EXCEPT !.categoryId = NULL])
    IN  IF ~Truthy(transaction.suggestionPatternId) THEN m
        ELSE IF m1.failed THEN m1
        ELSE AwaitUpdateTransaction(
                 [m1 EXCEPT !.transactions[id] = cleared], cleared)

\* mutant: the early return is missing, the deletes and the write happen
acceptSuggestion_NoEarlyReturn(m, id) ==
    LET transaction == m.transactions[id]
        i == FindPattern(m.patterns, transaction)
        pats == IF i = 0 THEN m.patterns
                ELSE [m.patterns EXCEPT ![i].acceptCount = @ + 1]
        m1 == IF i = 0 THEN m
              ELSE AwaitUpdatePattern([m EXCEPT !.patterns = pats], pats[i])
        cleared == ClearSuggestion(transaction)
    IN  IF m1.failed THEN m1
        ELSE AwaitUpdateTransaction(
                 [m1 EXCEPT !.transactions[id] = cleared], cleared)

\* mutant: a rejected updatePattern is swallowed and the method goes on
acceptSuggestion_SwallowsRejection(m, id) ==
    LET transaction == m.transactions[id]
        i == FindPattern(m.patterns, transaction)
        pats == IF i = 0 THEN m.patterns
                ELSE [m.patterns EXCEPT ![i].acceptCount = @ + 1]
        m1 == IF i = 0 THEN m
              ELSE AwaitUpdatePattern([m EXCEPT !.patterns = pats], pats[i])
        cleared == ClearSuggestion(transaction)
    IN  IF ~Truthy(transaction.suggestionPatternId) THEN m
        ELSE AwaitUpdateTransaction(
                 [m1 EXCEPT !.transactions[id] = cleared], cleared)

\* a rejected await throws: the statements after it do not run
acceptSuggestion(m, id) ==
    LET transaction == m.transactions[id]
        i == FindPattern(m.patterns, transaction)
        pats == IF i = 0 THEN m.patterns
                ELSE [m.patterns EXCEPT ![i].acceptCount = @ + 1]
        m1 == IF i = 0 THEN m
              ELSE AwaitUpdatePattern([m EXCEPT !.patterns = pats], pats[i])
        cleared == ClearSuggestion(transaction)
    IN  IF ~Truthy(transaction.suggestionPatternId) THEN m
        ELSE IF m1.failed THEN m1
        ELSE AwaitUpdateTransaction(
                 [m1 EXCEPT !.transactions[id] = cleared], cleared)

\* mutant: the category the suggestion set is kept
denySuggestion_KeepsCategory(m, id) ==
    LET transaction == m.transactions[id]
        i == FindPattern(m.patterns, transaction)
        pats == IF i = 0 THEN m.patterns
                ELSE [m.patterns EXCEPT ![i].denyCount = @ + 1]
        m1 == IF i = 0 THEN m
              ELSE AwaitUpdatePattern([m EXCEPT !.patterns = pats], pats[i])
        cleared == ClearSuggestion(transaction)
    IN  IF ~Truthy(transaction.suggestionPatternId) THEN m
        ELSE IF m1.failed THEN m1
        ELSE AwaitUpdateTransaction(
                 [m1 EXCEPT !.transactions[id] = cleared], cleared)

denySuggestion(m, id) ==
    LET transaction == m.transactions[id]
        i == FindPattern(m.patterns, transaction)
        pats == IF i = 0 THEN m.patterns
                ELSE [m.patterns EXCEPT ![i].denyCount = @ + 1]
        m1 == IF i = 0 THEN m
              ELSE AwaitUpdatePattern([m EXCEPT !.patterns = pats], pats[i])
        cleared == ClearSuggestion([transaction EXCEPT !.categoryId = NULL])
    IN  IF ~Truthy(transaction.suggestionPatternId) THEN m
        ELSE IF m1.failed THEN m1
        ELSE AwaitUpdateTransaction(
                 [m1 EXCEPT !.transactions[id] = cleared], cleared)

\* mutant: only the first pending transaction is accepted
AcceptEach_OnlyFirst(m, pending) ==
    IF pending = <<>> \/ m.failed THEN m
    ELSE acceptSuggestion(m, Head(pending))

\* the for loop; a rejected await inside acceptSuggestion ends it
RECURSIVE AcceptEach(_, _)
AcceptEach(m, pending) ==
    IF pending = <<>> \/ m.failed THEN m
    ELSE AcceptEach(acceptSuggestion(m, Head(pending)), Tail(pending))

\* ids lists the transactions passed in, in iteration order; the method
\* returns pending.length unless it threw
acceptAllPending(m, ids) ==
    LET pending == Filter(ids, {id \in Range(ids) :
                                   Truthy(m.transactions[id].pendingReview)})
        done == AcceptEach(m, pending)
    IN  IF done.failed THEN done
        ELSE [done EXCEPT !.result = Len(pending)]

\* the transaction objects are changed in memory only
autoCategorize(m, ids, threshold) ==
    [m EXCEPT !.transactions =
        [id \in DOMAIN m.transactions |->
            IF id \in Range(ids)
            THEN Categorize(m.transactions[id], m.patterns, threshold)
            ELSE m.transactions[id]]]

\* the store calls updatePatternsInDatabase makes, one for each mined
\* pattern (a record that is added has no id yet)
MineLog(newPatterns, existingPatterns) ==
    [k \in DOMAIN newPatterns |->
        LET i == FindExisting(existingPatterns, newPatterns[k])
        IN  IF i # 0 THEN Call("updatePattern", existingPatterns[i].id, TRUE)
            ELSE Call("addPattern", NULL, TRUE)]

minePatterns(m, ids) ==
    LET mined == MinedPatterns([k \in DOMAIN ids |-> m.transactions[ids[k]]])
        db == updatePatternsInDatabase(m.dbPatterns, mined)
    IN  [m EXCEPT !.dbPatterns = db, !.patterns = getPatterns(db),
                  !.log = @ \o MineLog(mined, getPatterns(m.dbPatterns))]

(***************************************************************************)
(* Bounds and inputs                                                       *)
(***************************************************************************)
\* feedback is recorded while acceptCount + denyCount is below this
MaxFeedback == 5

\* the user edits transactions in the application at most this often
MaxEdits == 1

\* calculateConfidence is applied to patterns with counters up to these
MaxMatchCount == 9

MaxCount == 2

\* an unreliable store rejects an operation's writes after at most this many
MaxCredit == 2

\* calculateSimilarity is applied to strings up to this length
MaxSimilarityLen == 3

\* in the Walmart scenario the suggestion is denied at most this often
MaxDenials == 6

DefaultThreshold == 70

Categories == {1, 2}

\* the arguments setConfidenceThreshold is called with
ThresholdInputs == {-5, 0, 70, 100, 105}

\* the amounts of the first transaction in the initial histories
FirstAmounts == {0, -40}

NewTransaction(id, description, amount, day, categoryId) ==
    [id |-> id, description |-> description, amount |-> amount,
     date |-> [month |-> id, day |-> day], categoryId |-> categoryId,
     isSplit |-> FALSE, splits |-> <<>>,
     pendingReview |-> Absent, suggestionConfidence |-> Absent,
     suggestionReasoning |-> Absent, suggestionPatternId |-> Absent]

\* an imported history: two purchases at one Walmart store the user has
\* categorized by hand, and two uncategorized transactions
History(firstAmount) ==
    << NewTransaction(1, Walmart1234, firstAmount, 1, 1),
       NewTransaction(2, Walmart1234, -42, 3, 1),
       NewTransaction(3, Walmart9981, -40, 5, NULL),
       NewTransaction(4, Wax, -5, 20, NULL) >>

Ids == DOMAIN transactions

\* the whole transaction list, in order
AllIds == [k \in Ids |-> k]

\* the lists autoCategorize is called with: every transaction, or one
Batches == {AllIds} \cup {<<id>> : id \in Ids}

\* the splits the split dialog is confirmed with
SplitInputs ==
    { <<>>,
      <<[categoryId |-> 1, percentage |-> 60], [categoryId |-> 2, percentage |-> 40]>>,
      <<[categoryId |-> 1, percentage |-> 60], [categoryId |-> 2, percentage |-> 30]>>,
      <<[categoryId |-> 1, percentage |-> 50], [categoryId |-> NULL, percentage |-> 50]>> }

(***************************************************************************)
(* Actions                                                                 *)
(***************************************************************************)
\* hit: the operation did not return early
Op(name, id) == [op |-> name, id |-> id, hit |-> TRUE]

Feedback(name, id) ==
    [op |-> name, id |-> id,
     hit |-> Truthy(transactions[id].suggestionPatternId)]

NoProbe == [in |-> Absent, out |-> Absent]

\* an operation that asks nothing of the store
NoIo == [log |-> <<>>, failed |-> FALSE, result |-> 0]

\* new RulesEngine(db) on an empty rules store
NoRules == [rules |-> <<>>, db |-> <<>>, lastId |-> 0]

InitEngine ==
    /\ patterns = <<>>
    /\ dbPatterns = <<>>
    /\ confidenceThreshold = DefaultThreshold
    /\ edits = 0
    /\ memo = [merchant |-> MerchantTable, similarity |-> SimilarityTable]
    /\ lastOp = Op("constructor", 0)
    /\ io = NoIo
    /\ rulesEngine = NoRules
    /\ mining = Absent

Init ==
    /\ \E a \in FirstAmounts :
          /\ transactions = History(a)
          /\ dbTransactions = History(a)
    /\ InitEngine
    /\ probe = NoProbe

SetMemory(m) ==
    /\ transactions' = m.transactions
    /\ dbTransactions' = m.dbTransactions
    /\ patterns' = m.patterns
    /\ dbPatterns' = m.dbPatterns
    /\ io' = [log |-> m.log, failed |-> m.failed, result |-> m.result]

\* SmartCategorizationEngine.init
EngineInit ==
    /\ patterns' = getPatterns(dbPatterns)
    /\ lastOp' = Op("init", 0)
    /\ io' = NoIo
    /\ UNCHANGED <<transactions, dbTransactions, dbPatterns,
                   confidenceThreshold, edits, memo, mining, rulesEngine, probe>>

\* the application mines its whole transaction list
MinePatterns ==
    /\ SetMemory(minePatterns(Memory, AllIds))
    /\ lastOp' = Op("minePatterns", 0)
    /\ UNCHANGED <<confidenceThreshold, edits, memo, mining, rulesEngine, probe>>

AutoCategorize ==
    /\ \E ids \in Batches :
          SetMemory(autoCategorize(Memory, ids, confidenceThreshold))
    /\ lastOp' = Op("autoCategorize", 0)
    /\ UNCHANGED <<confidenceThreshold, edits, memo, mining, rulesEngine, probe>>

\* the counters of the pattern a pending transaction refers to may grow
FeedbackRoom(id) ==
    LET i == FindPattern(patterns, transactions[id])
    IN  IF i = 0 THEN TRUE
        ELSE patterns[i].acceptCount + patterns[i].denyCount < MaxFeedback

AcceptSuggestion ==
    /\ \E id \in Ids :
          /\ FeedbackRoom(id)
          /\ SetMemory(acceptSuggestion(Memory, id))
          /\ lastOp' = Feedback("acceptSuggestion", id)
    /\ UNCHANGED <<confidenceThreshold, edits, memo, mining, rulesEngine, probe>>

DenySuggestion ==
    /\ \E id \in Ids :
          /\ FeedbackRoom(id)
          /\ SetMemory(denySuggestion(Memory, id))
          /\ lastOp' = Feedback("denySuggestion", id)
    /\ UNCHANGED <<confidenceThreshold, edits, memo, mining, rulesEngine, probe>>

AcceptAllPending ==
    /\ LET m == acceptAllPending(Memory, AllIds)
       IN  /\ \A i \in DOMAIN m.patterns :
                  m.patterns[i].acceptCount + m.patterns[i].denyCount
                      <= MaxFeedback
           /\ SetMemory(m)
    /\ lastOp' = Op("acceptAllPending", 0)
    /\ UNCHANGED <<confidenceThreshold, edits, memo, mining, rulesEngine, probe>>

\* mutant: Math.min(100, threshold), the lower clamp is missing
setConfidenceThreshold_NoLower(threshold) == Min(100, threshold)

\* Math.max(0, Math.min(100, threshold))
setConfidenceThreshold(threshold) == Max(0, Min(100, threshold))

getConfidenceThreshold == confidenceThreshold

SetConfidenceThreshold ==
    /\ \E threshold \in ThresholdInputs :
          /\ confidenceThreshold' = setConfidenceThreshold(threshold)
          /\ lastOp' = Op("setConfidenceThreshold", threshold)
    /\ io' = NoIo
    /\ UNCHANGED <<transactions, dbTransactions, patterns, dbPatterns, edits,
                   memo, mining, rulesEngine, probe>>

\* MoneyTrackerApp.categorizeTransaction(id, categoryId)
CategorizeTransaction ==
    /\ edits < MaxEdits
    /\ \E id \in Ids, categoryId \in Categories \cup {NULL} :
          LET transaction == [transactions[id] EXCEPT !.categoryId = categoryId]
          IN  /\ transactions' = [transactions EXCEPT ![id] = transaction]
              /\ dbTransactions' = updateTransaction(dbTransactions, transaction)
              /\ lastOp' = Op("categorizeTransaction", id)
              /\ io' = [NoIo EXCEPT
                            !.log = <<Call("updateTransaction", id, TRUE)>>]
    /\ edits' = edits + 1
    /\ UNCHANGED <<patterns, dbPatterns, confidenceThreshold, memo, mining, rulesEngine, probe>>

\* the checks confirmSplit makes before it saves
ValidSplits(splits) ==
    /\ splits # <<>>
    /\ SeqSum([i \in DOMAIN splits |-> splits[i].percentage]) = 100
    /\ \A i \in DOMAIN splits : splits[i].categoryId # NULL

\* MoneyTrackerApp.confirmSplit on the transaction open in the dialog
ConfirmSplit ==
    /\ edits < MaxEdits
    /\ \E id \in Ids, splits \in SplitInputs :
          LET transaction == [transactions[id] EXCEPT
                                 !.splits = splits,
                                 !.isSplit = TRUE,
                                 !.categoryId = NULL]
          IN  /\ IF ValidSplits(splits)
                 THEN /\ transactions' = [transactions EXCEPT ![id] = transaction]
                      /\ dbTransactions' =
                             updateTransaction(dbTransactions, transaction)
                      /\ io' = [NoIo EXCEPT
                                    !.log = <<Call("updateTransaction", id, TRUE)>>]
                 ELSE /\ io' = NoIo
                      /\ UNCHANGED <<transactions, dbTransactions>>
              /\ lastOp' = Op("confirmSplit", id)
    /\ edits' = edits + 1
    /\ UNCHANGED <<patterns, dbPatterns, confidenceThreshold, memo, mining, rulesEngine, probe>>

\* the engine on its own
Next ==
    \/ EngineInit
    \/ MinePatterns
    \/ AutoCategorize
    \/ AcceptSuggestion
    \/ DenySuggestion
    \/ AcceptAllPending
    \/ SetConfidenceThreshold

Spec == Init /\ [][Next]_vars

\* the engine at its default threshold, with the user editing transactions
\* in the application between the engine's operations
NextApp ==
    \/ MinePatterns
    \/ AutoCategorize
    \/ AcceptSuggestion
    \/ DenySuggestion
    \/ AcceptAllPending
    \/ CategorizeTransaction
    \/ ConfirmSplit

SpecApp == Init /\ [][NextApp]_vars

(***************************************************************************)
(* The rules engine and the application's applyRules                       *)
(***************************************************************************)
\* RulesEngine.testRule; the modelled transactions carry no memo
testRule(rule, transaction) ==
    LET pattern == toLowerCase(rule.pattern)
        description == toLowerCase(transaction.description)
        memoText == <<>>
    IN  IF rule.matchField = "description" THEN includes(description, pattern)
        ELSE IF rule.matchField = "memo" THEN includes(memoText, pattern)
        ELSE includes(description, pattern) \/ includes(memoText, pattern)

\* RulesEngine.findMatchingRule: index of the first rule that matches, or 0
findMatchingRule(rules, transaction) ==
    LET hits == {k \in DOMAIN rules : testRule(rules[k], transaction)}
    IN  IF hits = {} THEN 0 ELSE CHOOSE k \in hits : \A j \in hits : k <= j

\* RulesEngine.applyRulesToTransaction: the transaction afterwards
applyRulesToTransaction(rules, transaction) ==
    LET k == findMatchingRule(rules, transaction)
    IN  IF transaction.categoryId # NULL THEN transaction
        ELSE IF k # 0
             THEN [transaction EXCEPT !.categoryId = rules[k].categoryId]
             ELSE transaction

\* the rules the user may have created
RulePatterns == {<<"w", "a", "l">>, <<"w", "a", "x">>}

Rules ==
    [pattern : RulePatterns, categoryId : Categories,
     matchField : {"description", "memo"}, priority : {0, 1}]

\* this.rules: the engine keeps the list sorted by priority, highest first;
\* the lists here hold up to two rules of different priorities
RuleLists ==
    { rules \in UNION {[1..n -> Rules] : n \in 0..2} :
        \A j, k \in DOMAIN rules :
            j < k => rules[j].priority > rules[k].priority }

\* MoneyTrackerApp.applyRules
ApplyRules ==
    /\ \E rules \in RuleLists :
          LET uncategorized == {id \in Ids : transactions[id].categoryId = NULL}
              after == [id \in Ids |->
                           IF id \in uncategorized
                           THEN applyRulesToTransaction(rules, transactions[id])
                           ELSE transactions[id]]
              saved == {id \in uncategorized : after[id].categoryId # NULL}
              order == Filter(AllIds, saved)
          IN  /\ transactions' = after
              /\ dbTransactions' =
                     [id \in Ids |-> IF id \in saved THEN after[id]
                                     ELSE dbTransactions[id]]
              /\ io' = [NoIo EXCEPT !.log =
                           [k \in DOMAIN order |->
                               Call("updateTransaction", order[k], TRUE)]]
    /\ lastOp' = Op("applyRules", 0)
    /\ UNCHANGED <<patterns, dbPatterns, confidenceThreshold, edits, memo, mining, rulesEngine,
                   probe>>

\* the application without the engine: edits and rule applications
NextEdit ==
    \/ CategorizeTransaction
    \/ ConfirmSplit
    \/ ApplyRules

SpecEdit == Init /\ [][NextEdit]_vars

(***************************************************************************)
(* The rules engine's own state: init, createRule, updateRule, deleteRule  *)
(***************************************************************************)
\* Array.prototype.sort with (a, b) => (b.priority || 0) - (a.priority || 0):
\* a stable sort, highest priority first
RECURSIVE SortInto(_, _)
SortInto(sorted, rest) ==
    IF rest = <<>> THEN sorted
    ELSE LET rule == Head(rest)
             n == Cardinality({k \in DOMAIN sorted :
                                  sorted[k].priority >= rule.priority})
         IN  SortInto(Take(sorted, n) \o <<rule>> \o Drop(sorted, n),
                      Tail(rest))

SortRules(rules) == SortInto(<<>>, rules)

\* index of the rule with this id in a list, 0 when there is none
FindRule(rules, id) ==
    LET hits == {k \in DOMAIN rules : rules[k].id = id}
    IN  IF hits = {} THEN 0 ELSE CHOOSE k \in hits : TRUE

\* db.getAllRules: the stored rules in key order
getAllRules(engine) == engine.db

\* RulesEngine.init
RulesEngineInit(engine) ==
    [engine EXCEPT !.rules = SortRules(getAllRules(engine))]

\* RulesEngine.createRule: db.addRule gives the rule the next key
createRule(engine, pattern, categoryId, matchField, priority) ==
    LET rule == [id |-> engine.lastId + 1,
                 pattern |-> trim(toLowerCase(pattern)),
                 categoryId |-> categoryId,
                 matchField |-> matchField,
                 priority |-> priority]
    IN  [rules  |-> SortRules(Append(engine.rules, rule)),
         db     |-> Append(engine.db, rule),
         lastId |-> engine.lastId + 1]

\* Object.assign(rule, updates), for updates that may hold a priority
Assign(rule, updates) ==
    IF updates.priority = Absent THEN rule
    ELSE [rule EXCEPT !.priority = updates.priority[1]]

\* db.updateRule: store.put replaces the record with the same key
PutRule(db, rule) ==
    [k \in DOMAIN db |-> IF db[k].id = rule.id THEN rule ELSE db[k]]

\* mutant: the list is not sorted again after a priority change
updateRule_NoResort(engine, id, updates) ==
    LET k == FindRule(engine.rules, id)
        rule == Assign(engine.rules[k], updates)
    IN  IF k = 0 THEN engine
        ELSE [engine EXCEPT !.rules = [engine.rules EXCEPT ![k] = rule],
                            !.db = PutRule(engine.db, rule)]

\* RulesEngine.updateRule; it throws when this.rules has no such rule
updateRule(engine, id, updates) ==
    LET k == FindRule(engine.rules, id)
        rule == Assign(engine.rules[k], updates)
        assigned == [engine.rules EXCEPT ![k] = rule]
    IN  IF k = 0 THEN engine
        ELSE [engine EXCEPT
                 !.rules = IF updates.priority # Absent
                           THEN SortRules(assigned) ELSE assigned,
                 !.db = PutRule(engine.db, rule)]

\* RulesEngine.deleteRule
deleteRule(engine, id) ==
    [engine EXCEPT
        !.rules = Filter(engine.rules, {r \in Range(engine.rules) : r.id # id}),
        !.db    = Filter(engine.db, {r \in Range(engine.db) : r.id # id})]

\* at most this many rules are ever created
MaxRules == 2

\* the arguments createRule is called with: a pattern as the user types it
\* and the category the rule assigns
CreateInputs ==
    { [pattern |-> <<"W", "A", "L">>, categoryId |-> 1],
      [pattern |-> <<"w", "a", "x", " ">>, categoryId |-> 2] }

CreatePriorities == {0, 1}

\* the updates updateRule is called with: none, or a new priority
UpdateInputs ==
    { [priority |-> Absent], [priority |-> Present(0)],
      [priority |-> Present(2)] }

RuleIds == 1..rulesEngine.lastId

\* the rules store a previous session left behind: empty, or two rules in
\* key order, the second of the higher priority
StoredRules ==
    { <<>>,
      << [id |-> 1, pattern |-> <<"w", "a", "l">>, categoryId |-> 1,
          matchField |-> "both", priority |-> 0],
         [id |-> 2, pattern |-> <<"w", "a", "x">>, categoryId |-> 2,
          matchField |-> "description", priority |-> 1] >> }

RulesHistory ==
    << NewTransaction(1, Walmart1234, -40, 1, 1),
       NewTransaction(2, Walmart9981, -40, 5, NULL),
       NewTransaction(3, Wax, -5, 20, NULL) >>

InitRules ==
    /\ transactions = RulesHistory
    /\ dbTransactions = RulesHistory
    /\ patterns = <<>>
    /\ dbPatterns = <<>>
    /\ confidenceThreshold = DefaultThreshold
    /\ edits = 0
    /\ memo = [merchant |-> MerchantTable, similarity |-> SimilarityTable]
    /\ lastOp = Op("constructor", 0)
    /\ io = NoIo
    /\ probe = NoProbe
    /\ \E db \in StoredRules :
          rulesEngine = [rules |-> <<>>, db |-> db, lastId |-> Len(db)]
    /\ mining = Absent

RulesInit ==
    /\ rulesEngine' = RulesEngineInit(rulesEngine)
    /\ lastOp' = Op("init", 0)
    /\ io' = NoIo
    /\ UNCHANGED <<transactions, dbTransactions, patterns, dbPatterns,
                   confidenceThreshold, edits, memo, mining, probe>>

CreateRule ==
    /\ rulesEngine.lastId < MaxRules
    /\ \E input \in CreateInputs, priority \in CreatePriorities :
          rulesEngine' = createRule(rulesEngine, input.pattern,
                                    input.categoryId, "both", priority)
    /\ lastOp' = Op("createRule", 0)
    /\ io' = [NoIo EXCEPT !.log = <<Call("addRule", NULL, TRUE)>>]
    /\ UNCHANGED <<transactions, dbTransactions, patterns, dbPatterns,
                   confidenceThreshold, edits, memo, mining, probe>>

UpdateRule ==
    /\ \E id \in RuleIds, updates \in UpdateInputs :
          /\ rulesEngine' = updateRule(rulesEngine, id, updates)
          /\ lastOp' = Op("updateRule", id)
          /\ io' = IF FindRule(rulesEngine.rules, id) = 0
                   THEN [NoIo EXCEPT !.failed = TRUE]
                   ELSE [NoIo EXCEPT !.log = <<Call("updateRule", id, TRUE)>>]
    /\ UNCHANGED <<transactions, dbTransactions, patterns, dbPatterns,
                   confidenceThreshold, edits, memo, mining, probe>>

DeleteRule ==
    /\ \E id \in RuleIds :
          /\ rulesEngine' = deleteRule(rulesEngine, id)
          /\ io' = [NoIo EXCEPT !.log = <<Call("deleteRule", id, TRUE)>>]
    /\ lastOp' = Op("deleteRule", 0)
    /\ UNCHANGED <<transactions, dbTransactions, patterns, dbPatterns,
                   confidenceThreshold, edits, memo, mining, probe>>

\* RulesEngine.applyRulesToTransaction on a transaction object; the method
\* returns the matched rule (here: its id) or null
ApplyRulesToTransaction ==
    /\ \E id \in Ids :
          LET k == findMatchingRule(rulesEngine.rules, transactions[id])
          IN  /\ transactions' =
                     [transactions EXCEPT ![id] =
                         applyRulesToTransaction(rulesEngine.rules, @)]
              /\ io' = [NoIo EXCEPT !.result =
                           IF transactions[id].categoryId # NULL \/ k = 0
                           THEN NULL ELSE rulesEngine.rules[k].id]
              /\ lastOp' = Op("applyRulesToTransaction", id)
    /\ UNCHANGED <<dbTransactions, patterns, dbPatterns, confidenceThreshold,
                   edits, memo, mining, probe, rulesEngine>>

NextRules ==
    \/ RulesInit
    \/ CreateRule
    \/ UpdateRule
    \/ DeleteRule
    \/ ApplyRulesToTransaction

SpecRules == InitRules /\ [][NextRules]_vars

\* calculateConfidence on its own: any transaction against any pattern
ConfidenceAmounts == {0, 40, 60}

ConfidenceInputs ==
    { [transaction |-> NewTransaction(1, d, a, 1, NULL),
       pattern |-> [id |-> 1, merchantName |-> n, categoryId |-> 1,
                    matchCount |-> mc, acceptCount |-> ac, denyCount |-> dc,
                    amountMin |-> lo, amountMax |-> hi,
                    isRecurring |-> r,
                    recurrencePattern |-> IF r THEN "monthly" ELSE "null"]] :
        d \in {Walmart1234, Wax}, a \in {0, -40, -45, -70},
        n \in MerchantNames, mc \in 0..MaxMatchCount,
        ac \in 0..MaxCount, dc \in 0..MaxCount,
        lo \in ConfidenceAmounts, hi \in ConfidenceAmounts, r \in BOOLEAN }

InitConfidence ==
    /\ transactions = History(-40)
    /\ dbTransactions = History(-40)
    /\ InitEngine
    /\ \E input \in ConfidenceInputs :
          probe = [in |-> Present(input), out |-> Absent]

CalculateConfidence ==
    /\ probe.in # Absent
    /\ probe.out = Absent
    /\ probe' = [probe EXCEPT !.out =
                    Present(calculateConfidence(probe.in[1].transaction,
                                                probe.in[1].pattern))]
    /\ lastOp' = Op("calculateConfidence", 0)
    /\ io' = NoIo
    /\ UNCHANGED <<transactions, dbTransactions, patterns, dbPatterns,
                   confidenceThreshold, edits, memo, mining, rulesEngine>>

NextConfidence == CalculateConfidence

SpecConfidence == InitConfidence /\ [][NextConfidence]_vars

\* detectRecurringPattern on its own: two or three categorized transactions
\* of consecutive months, one of them the transaction asked about
RecurringDays == {1, 3, 30}

RecurringAmounts == {-40, -50}

RecurringChoices ==
    [description : {Walmart1234, Wax}, amount : RecurringAmounts,
     day : RecurringDays]

RecurringHistory(choices) ==
    [k \in DOMAIN choices |->
        NewTransaction(k, choices[k].description, choices[k].amount,
                       choices[k].day, 1)]

RecurringInputs ==
    { [historicalTransactions |-> RecurringHistory(choices), index |-> k] :
        choices \in [1..2 -> RecurringChoices] \cup [1..3 -> RecurringChoices],
        k \in 1..3 }

InitRecurring ==
    /\ transactions = History(-40)
    /\ dbTransactions = History(-40)
    /\ InitEngine
    /\ \E input \in RecurringInputs :
          /\ input.index \in DOMAIN input.historicalTransactions
          /\ probe = [in |-> Present(input), out |-> Absent]

\* the result for the chosen transaction, and the patterns minePatterns
\* builds from the same list
DetectRecurringPattern ==
    /\ probe.in # Absent
    /\ probe.out = Absent
    /\ LET input == probe.in[1]
       IN  probe' = [probe EXCEPT !.out = Present(
               [recurrence |->
                    detectRecurringPattern(
                        input.historicalTransactions[input.index],
                        input.historicalTransactions),
                mined |-> MinedPatterns(input.historicalTransactions)])]
    /\ lastOp' = Op("detectRecurringPattern", 0)
    /\ io' = NoIo
    /\ UNCHANGED <<transactions, dbTransactions, patterns, dbPatterns,
                   confidenceThreshold, edits, memo, mining, rulesEngine>>

NextRecurring == DetectRecurringPattern

SpecRecurring == InitRecurring /\ [][NextRecurring]_vars

\* the Walmart scenario: five purchases 'WALMART #1234' between 40 and 60
\* that the user has categorized as Groceries, an empty pattern store, and
\* a new purchase 'WALMART #9981' of 45
Groceries == 1

WalmartAmounts == {-40, -45, -50, -60}

WalmartDays == {5, 25}

WalmartNew == NewTransaction(6, Walmart9981, -45, 10, NULL)

WalmartHistory(a2, a3, a4, day) ==
    << NewTransaction(1, Walmart1234, -40, 5, Groceries),
       NewTransaction(2, Walmart1234, a2, day, Groceries),
       NewTransaction(3, Walmart1234, a3, 5, Groceries),
       NewTransaction(4, Walmart1234, a4, 5, Groceries),
       NewTransaction(5, Walmart1234, -60, 5, Groceries),
       WalmartNew >>

InitWalmart ==
    /\ \E a2 \in WalmartAmounts, a3 \in WalmartAmounts,
          a4 \in WalmartAmounts, day \in WalmartDays :
          /\ transactions = WalmartHistory(a2, a3, a4, day)
          /\ dbTransactions = WalmartHistory(a2, a3, a4, day)
    /\ InitEngine
    /\ probe = NoProbe

\* the user denies a suggestion
DenyWalmart ==
    /\ \E id \in Ids :
          /\ \A i \in DOMAIN patterns : patterns[i].denyCount < MaxDenials
          /\ SetMemory(denySuggestion(Memory, id))
          /\ lastOp' = Feedback("denySuggestion", id)
    /\ UNCHANGED <<confidenceThreshold, edits, memo, mining, rulesEngine, probe>>

NextWalmart ==
    \/ MinePatterns
    \/ AutoCategorize
    \/ DenyWalmart

SpecWalmart == InitWalmart /\ [][NextWalmart]_vars

\* calculateSimilarity on its own: any two strings over a small alphabet
SimilarityAlphabet == {"a", "b", "A"}

SimilarityStrings ==
    UNION {[1..n -> SimilarityAlphabet] : n \in 0..MaxSimilarityLen}

InitSimilarity ==
    /\ transactions = History(-40)
    /\ dbTransactions = History(-40)
    /\ InitEngine
    /\ \E str1 \in SimilarityStrings, str2 \in SimilarityStrings :
          probe = [in |-> Present([str1 |-> str1, str2 |-> str2]),
                   out |-> Absent]

CalculateSimilarity ==
    /\ probe.in # Absent
    /\ probe.out = Absent
    /\ LET str1 == probe.in[1].str1
           str2 == probe.in[1].str2
       IN  probe' = [probe EXCEPT !.out = Present(
               [forward  |-> calculateSimilarity(str1, str2),
                backward |-> calculateSimilarity(str2, str1),
                self     |-> calculateSimilarity(str1, str1)])]
    /\ lastOp' = Op("calculateSimilarity", 0)
    /\ io' = NoIo
    /\ UNCHANGED <<transactions, dbTransactions, patterns, dbPatterns,
                   confidenceThreshold, edits, memo, mining, rulesEngine>>

NextSimilarity == CalculateSimilarity

SpecSimilarity == InitSimilarity /\ [][NextSimilarity]_vars

\* the engine on a store that may reject the writes of a feedback operation
\* from some write on
Credits == {Absent} \cup {Present(credit) : credit \in 0..MaxCredit}

InitUnreliable ==
    /\ transactions = History(-40)
    /\ dbTransactions = History(-40)
    /\ InitEngine
    /\ probe = NoProbe

AcceptSuggestionUnreliable ==
    /\ \E id \in Ids, credit \in Credits :
          /\ FeedbackRoom(id)
          /\ SetMemory(acceptSuggestion(MemoryWith(credit), id))
          /\ lastOp' = Feedback("acceptSuggestion", id)
    /\ UNCHANGED <<confidenceThreshold, edits, memo, mining, rulesEngine, probe>>

DenySuggestionUnreliable ==
    /\ \E id \in Ids, credit \in Credits :
          /\ FeedbackRoom(id)
          /\ SetMemory(denySuggestion(MemoryWith(credit), id))
          /\ lastOp' = Feedback("denySuggestion", id)
    /\ UNCHANGED <<confidenceThreshold, edits, memo, mining, rulesEngine, probe>>

AcceptAllPendingUnreliable ==
    /\ \E credit \in Credits :
          LET m == acceptAllPending(MemoryWith(credit), AllIds)
          IN  /\ \A i \in DOMAIN m.patterns :
                     m.patterns[i].acceptCount + m.patterns[i].denyCount
                         <= MaxFeedback
              /\ SetMemory(m)
    /\ lastOp' = Op("acceptAllPending", 0)
    /\ UNCHANGED <<confidenceThreshold, edits, memo, mining, rulesEngine, probe>>

NextUnreliable ==
    \/ MinePatterns
    \/ AutoCategorize
    \/ SetConfidenceThreshold
    \/ AcceptSuggestionUnreliable
    \/ DenySuggestionUnreliable
    \/ AcceptAllPendingUnreliable

SpecUnreliable == InitUnreliable /\ [][NextUnreliable]_vars

\* normalizeMerchant on its own: bank descriptions made of a prefix, a
\* merchant text and a trailing store number, state code or date
AmznMktp == <<"A", "M", "Z", "N", " ", "M", "K", "T", "P">>

\* what the bank puts in front of the merchant text
NormalizePrefixes ==
    { <<>>,
      <<"A", "M", "Z", "N", " ", "M", "K", "T", "P", " ", "U", "S", "*">>,
      <<"A", "M", "Z", "N", " ", "M", "K", "T", "P">>,
      <<"A", "M", "Z", "N", " ", "M", "K", "T", "P", " ">>,
      <<"a", "m", "z", "n", " ", "m", "k", "t", "p", " ", "u", "s", "*">>,
      <<"P", "O", "S", " ">> }

\* the merchant text
NormalizeBodies ==
    { <<>>,
      <<"2", "K", "4", "X", "Y", "1", "A", "B", "0">>,
      <<"A", "M", "A", "Z", "O", "N">>,
      <<"W", "A", "X">> }

\* what the bank puts behind the merchant text
NormalizeSuffixes ==
    { <<>>,
      <<" ", "#", "1", "2">>,
      <<" ", "C", "A">>,
      <<" ", "1", "/", "2", "/", "2", "4">> }

NormalizeInputs ==
    { prefix \o body \o suffix :
        prefix \in NormalizePrefixes, body \in NormalizeBodies,
        suffix \in NormalizeSuffixes }

InitNormalize ==
    /\ transactions = History(-40)
    /\ dbTransactions = History(-40)
    /\ InitEngine
    /\ \E description \in NormalizeInputs :
          probe = [in |-> Present(description), out |-> Absent]

NormalizeMerchant ==
    /\ probe.in # Absent
    /\ probe.out = Absent
    /\ probe' = [probe EXCEPT !.out = Present(normalizeMerchant(probe.in[1]))]
    /\ lastOp' = Op("normalizeMerchant", 0)
    /\ io' = NoIo
    /\ UNCHANGED <<transactions, dbTransactions, patterns, dbPatterns,
                   confidenceThreshold, edits, memo, mining, rulesEngine>>

NextNormalize == NormalizeMerchant

SpecNormalize == InitNormalize /\ [][NextNormalize]_vars

\* feedback on its own: one stored pattern with any counters, loaded by
\* the engine, and one transaction that carries a suggestion made from it
FeedbackMatchCounts == {0, 4, 8}

FeedbackRanges == {[min |-> 0, max |-> 0], [min |-> 40, max |-> 60]}

FeedbackPatterns ==
    { [id |-> 1, merchantName |-> n, categoryId |-> 1,
       matchCount |-> mc, acceptCount |-> ac, denyCount |-> dc,
       amountMin |-> range.min, amountMax |-> range.max,
       isRecurring |-> r,
       recurrencePattern |-> IF r THEN "monthly" ELSE "null"] :
        n \in MerchantNames, mc \in FeedbackMatchCounts,
        ac \in 0..MaxCount, dc \in 0..MaxCount,
        range \in FeedbackRanges, r \in BOOLEAN }

\* the transaction as autoCategorize leaves it when it suggests the pattern
Suggested(transaction, pattern) ==
    [transaction EXCEPT
        !.categoryId           = pattern.categoryId,
        !.pendingReview        = Present(TRUE),
        !.suggestionConfidence = Present(calculateConfidence(transaction,
                                                             pattern)),
        !.suggestionReasoning  = Present(generateReasoning(transaction,
                                                           pattern)),
        !.suggestionPatternId  = Present(pattern.id)]

InitFeedback ==
    /\ memo = [merchant |-> MerchantTable, similarity |-> SimilarityTable]
    /\ \E pattern \in FeedbackPatterns,
          description \in {Walmart1234, Wax}, amount \in {-40, -70} :
          LET transaction == NewTransaction(1, description, amount, 1, NULL)
          IN  /\ patterns = <<pattern>>
              /\ dbPatterns = <<pattern>>
              /\ transactions = <<Suggested(transaction, pattern)>>
              /\ dbTransactions = <<transaction>>
    /\ confidenceThreshold = DefaultThreshold
    /\ edits = 0
    /\ lastOp = Op("constructor", 0)
    /\ io = NoIo
    /\ probe = NoProbe
    /\ rulesEngine = NoRules
    /\ mining = Absent

NextFeedback ==
    \/ AcceptSuggestion
    \/ DenySuggestion

SpecFeedback == InitFeedback /\ [][NextFeedback]_vars

\* findBestMatch on its own: the engine has loaded one pattern, any of
\* those calculateConfidence is applied to, and is asked about a transaction
InitBestMatch ==
    /\ memo = [merchant |-> MerchantTable, similarity |-> SimilarityTable]
    /\ transactions = History(-40)
    /\ dbTransactions = History(-40)
    /\ \E input \in ConfidenceInputs :
          /\ patterns = <<input.pattern>>
          /\ dbPatterns = <<input.pattern>>
          /\ probe = [in |-> Present(input.transaction), out |-> Absent]
    /\ confidenceThreshold = DefaultThreshold
    /\ edits = 0
    /\ lastOp = Op("constructor", 0)
    /\ io = NoIo
    /\ rulesEngine = NoRules
    /\ mining = Absent

FindBestMatch ==
    /\ probe.in # Absent
    /\ probe.out = Absent
    /\ probe' = [probe EXCEPT !.out =
                    Present(findBestMatch(probe.in[1], patterns,
                                          confidenceThreshold))]
    /\ lastOp' = Op("findBestMatch", 0)
    /\ io' = NoIo
    /\ UNCHANGED <<transactions, dbTransactions, patterns, dbPatterns,
                   confidenceThreshold, edits, memo, mining, rulesEngine>>

NextBestMatch == FindBestMatch

SpecBestMatch == InitBestMatch /\ [][NextBestMatch]_vars

\* minePatterns as the event loop runs it.  The call runs up to its first
\* await, the read of the stored patterns inside updatePatternsInDatabase,
\* and is suspended at every awaited store call after that; other
\* operations of the engine run while it is suspended.
\* MineStart: the mined patterns are computed and db.getPatterns is read
MineStart ==
    /\ mining = Absent
    /\ mining' = Present([newPatterns      |-> MinedPatterns(transactions),
                          existingPatterns |-> getPatterns(dbPatterns),
                          next             |-> 1])
    /\ lastOp' = Op("minePatterns: getPatterns", 0)
    /\ io' = NoIo
    /\ UNCHANGED <<transactions, dbTransactions, patterns, dbPatterns,
                   confidenceThreshold, edits, memo, probe, rulesEngine>>

\* MineWrite: one turn of the for loop, up to its awaited updatePattern or
\* addPattern
MineWrite ==
    /\ mining # Absent
    /\ mining[1].next <= Len(mining[1].newPatterns)
    /\ LET newPattern == mining[1].newPatterns[mining[1].next]
           existingPatterns == mining[1].existingPatterns
           i == FindExisting(existingPatterns, newPattern)
           merged == MergePattern(existingPatterns[i], newPattern)
       IN  /\ IF i # 0
              THEN /\ dbPatterns' = updatePattern(dbPatterns, merged)
                   /\ mining' = Present([mining[1] EXCEPT
                                            !.existingPatterns[i] = merged,
                                            !.next = @ + 1])
                   /\ lastOp' = Op("minePatterns: updatePattern", merged.id)
                   /\ io' = [NoIo EXCEPT !.log =
                                <<Call("updatePattern", merged.id, TRUE)>>]
              ELSE /\ dbPatterns' = addPattern(dbPatterns, newPattern)
                   /\ mining' = Present([mining[1] EXCEPT !.next = @ + 1])
                   /\ lastOp' = Op("minePatterns: addPattern", 0)
                   /\ io' = [NoIo EXCEPT !.log =
                                <<Call("addPattern", NULL, TRUE)>>]
    /\ UNCHANGED <<transactions, dbTransactions, patterns, confidenceThreshold,
                   edits, memo, probe, rulesEngine>>

\* MineFinish: this.patterns = await this.db.getPatterns(), and the return
MineFinish ==
    /\ mining # Absent
    /\ mining[1].next > Len(mining[1].newPatterns)
    /\ patterns' = getPatterns(dbPatterns)
    /\ mining' = Absent
    /\ lastOp' = Op("minePatterns", 0)
    /\ io' = NoIo
    /\ UNCHANGED <<transactions, dbTransactions, dbPatterns,
                   confidenceThreshold, edits, memo, probe, rulesEngine>>

\* the engine with feedback and suggestions arriving while a mining run is
\* suspended
NextConcurrent ==
    \/ MineStart
    \/ MineWrite
    \/ MineFinish
    \/ AutoCategorize
    \/ AcceptSuggestion
    \/ DenySuggestion

SpecConcurrent == Init /\ [][NextConcurrent]_vars

\* the engine and the application on a history in which one merchant and
\* category pair has a single transaction
StaleHistory ==
    << NewTransaction(1, Walmart1234, -40, 1, 1),
       NewTransaction(2, Wax, -5, 3, 2),
       NewTransaction(3, Walmart9981, -40, 5, NULL) >>

InitStale ==
    /\ transactions = StaleHistory
    /\ dbTransactions = StaleHistory
    /\ InitEngine
    /\ probe = NoProbe

SpecStale == InitStale /\ [][NextApp]_vars

\* the user who denies every suggestion: the engine has loaded one pattern,
\* any of FeedbackPatterns, and one uncategorized transaction is offered to
\* autoCategorize again after every denial
InitDenyAll ==
    /\ memo = [merchant |-> MerchantTable, similarity |-> SimilarityTable]
    /\ \E pattern \in FeedbackPatterns,
          description \in {Walmart1234, Wax}, amount \in {-40, -70} :
          LET transaction == NewTransaction(1, description, amount, 1, NULL)
          IN  /\ patterns = <<pattern>>
              /\ dbPatterns = <<pattern>>
              /\ transactions = <<transaction>>
              /\ dbTransactions = <<transaction>>
    /\ confidenceThreshold = DefaultThreshold
    /\ edits = 0
    /\ lastOp = Op("constructor", 0)
    /\ io = NoIo
    /\ probe = NoProbe
    /\ rulesEngine = NoRules
    /\ mining = Absent

\* denyCount grows without bound while the user goes on denying.  Counts
\* beyond MaxDenials are kept at MaxDenials: acceptCount does not change in
\* these runs and is at most MaxCount, so the accept ratio stays below 0.5
\* and calculateConfidence takes the same branch for every larger count
CapDenials(pats) ==
    [i \in DOMAIN pats |->
        [pats[i] EXCEPT
            !.denyCount = IF @ > MaxDenials THEN MaxDenials ELSE @]]

\* the user denies the suggestion autoCategorize made
DenyEvery ==
    /\ \E id \in Ids :
          /\ Truthy(transactions[id].pendingReview)
          /\ \E m \in {denySuggestion(Memory, id)} :
                SetMemory([m EXCEPT !.patterns = CapDenials(@),
                                    !.dbPatterns = CapDenials(@)])
          /\ lastOp' = Feedback("denySuggestion", id)
    /\ UNCHANGED <<confidenceThreshold, edits, memo, probe, rulesEngine,
                   mining>>

\* an autoCategorize call that follows another operation, seen on the
\* history variable: possible exactly when autoCategorize did not run last
OfferedAgain ==
    /\ lastOp.op # "autoCategorize"
    /\ lastOp' = Op("autoCategorize", 0)

NextDenyAll ==
    \/ AutoCategorize
    \/ DenyEvery

\* the transaction is offered to autoCategorize again after every denial,
\* and every suggestion is answered with a denial
SpecDenyAll ==
    /\ InitDenyAll
    /\ [][NextDenyAll]_vars
    /\ WF_lastOp(OfferedAgain)
    /\ WF_vars(DenyEvery)

(***************************************************************************)
(* Properties                                                              *)
(***************************************************************************)
SuggestionFields(t) ==
    {t.pendingReview, t.suggestionConfidence, t.suggestionReasoning,
     t.suggestionPatternId}

HasSuggestion(t) == Absent \notin SuggestionFields(t)

HasNoSuggestion(t) ==
    /\ t.pendingReview = Absent
    /\ t.suggestionConfidence = Absent
    /\ t.suggestionReasoning = Absent
    /\ t.suggestionPatternId = Absent

\* C1: every transaction, in memory and persisted, carries either all four
\* suggestion fields or none of them
C1_SuggestionFieldsTogether ==
    \A id \in Ids :
        /\ HasSuggestion(transactions[id]) \/ HasNoSuggestion(transactions[id])
        /\ HasSuggestion(dbTransactions[id]) \/ HasNoSuggestion(dbTransactions[id])

\* C1 witness: one suggestion has just been denied and its fields removed
\* while another transaction carries all four fields
C1_Witness ==
    /\ lastOp.op = "denySuggestion"
    /\ HasNoSuggestion(transactions[lastOp.id])
    /\ \E p \in Range(patterns) : p.denyCount > 0
    /\ \E id \in Ids : HasSuggestion(transactions[id])

\* C2: a transaction becomes pending only from categoryId = null and
\* isSplit = false, and autoCategorize leaves every transaction that has a
\* category or is split exactly as it was
C2_OnlyUncategorizedSuggested ==
    [][\A id \in Ids :
          /\ (~Truthy(transactions[id].pendingReview)
              /\ Truthy(transactions'[id].pendingReview))
             => (transactions[id].categoryId = NULL /\ ~transactions[id].isSplit)
          /\ (lastOp'.op = "autoCategorize"
              /\ (transactions[id].categoryId # NULL \/ transactions[id].isSplit))
             => transactions'[id] = transactions[id]]_vars

\* C2 witness: autoCategorize ran over a split transaction that a loaded
\* pattern matches above the threshold, and suggested another one
C2_Witness ==
    /\ lastOp.op = "autoCategorize"
    /\ \E id \in Ids :
          /\ transactions[id].isSplit
          /\ ~Truthy(transactions[id].pendingReview)
          /\ findBestMatch(transactions[id], patterns, confidenceThreshold) # Absent
    /\ \E id \in Ids :
          /\ ~transactions[id].isSplit
          /\ Truthy(transactions[id].pendingReview)

\* the highest confidence of a transaction over the loaded patterns
BestConfidence(transaction) ==
    CHOOSE c \in {calculateConfidence(transaction, p) : p \in Range(patterns)} :
        \A p \in Range(patterns) :
            FracLeq(calculateConfidence(transaction, p), c)

\* C3: when the highest confidence over the loaded patterns equals the
\* threshold (any threshold in 0..100), findBestMatch returns a match with
\* that confidence
C3_ExactThresholdAccepted ==
    \A id \in Ids :
        (/\ Merchant(transactions[id].description) # <<>>
         /\ patterns # <<>>
         /\ BestConfidence(transactions[id]) = Int2Frac(confidenceThreshold))
        => LET match == findBestMatch(transactions[id], patterns,
                                      confidenceThreshold)
           IN  /\ match # Absent
               /\ match[1].confidence = Int2Frac(confidenceThreshold)


\* C4: calculateConfidence returns a value between 0 and 100, for an
\* unclamped sum of the five factors anywhere between -20 and 110
C4_ConfidenceClamped ==
    probe.out # Absent =>
        LET raw == RawConfidence(probe.in[1].transaction, probe.in[1].pattern)
        IN  /\ FracLeq(Int2Frac(0), probe.out[1])
            /\ FracLeq(probe.out[1], Int2Frac(100))
            /\ FracLeq(Int2Frac(-20), raw)
            /\ FracLeq(raw, Int2Frac(110))

\* C4 witness: the five factors sum to 110 and the result is 100
C4_Witness ==
    /\ probe.out = Present(Int2Frac(100))
    /\ RawConfidence(probe.in[1].transaction, probe.in[1].pattern)
           = Int2Frac(110)

SameKey(p, q) ==
    /\ p.merchantName = q.merchantName
    /\ p.categoryId = q.categoryId

\* C5: no two persisted patterns share both merchantName and categoryId
C5_UniquePatternKeys ==
    \A i, j \in DOMAIN dbPatterns :
        SameKey(dbPatterns[i], dbPatterns[j]) => i = j

\* the patterns a mining of the current transaction list computes
MinedNow == MinedPatterns(transactions)

\* C5 witness: minePatterns has just met a pair it had stored before, with
\* feedback recorded against it in between, next to another stored pattern
C5_Witness ==
    /\ lastOp.op = "minePatterns"
    /\ Len(dbPatterns) >= 2
    /\ \E i \in DOMAIN dbPatterns :
          /\ dbPatterns[i].denyCount > 0
          /\ \E k \in DOMAIN MinedNow : SameKey(MinedNow[k], dbPatterns[i])

\* C6: a minePatterns step leaves acceptCount and denyCount of every pattern
\* that was already persisted as they were
C6_FeedbackSurvivesMining ==
    [][lastOp'.op = "minePatterns" =>
          \A i \in DOMAIN dbPatterns :
              /\ i \in DOMAIN dbPatterns'
              /\ dbPatterns'[i].acceptCount = dbPatterns[i].acceptCount
              /\ dbPatterns'[i].denyCount = dbPatterns[i].denyCount]_vars

\* C6 witness: after a mining that merged, a stored pattern has denials and
\* an acceptCount different from the size of its mined group
C6_Witness ==
    /\ lastOp.op = "minePatterns"
    /\ \E i \in DOMAIN dbPatterns, k \in DOMAIN MinedNow :
          /\ SameKey(MinedNow[k], dbPatterns[i])
          /\ dbPatterns[i].matchCount = MinedNow[k].matchCount
          /\ dbPatterns[i].denyCount > 0
          /\ dbPatterns[i].acceptCount # MinedNow[k].acceptCount

\* C7: a minePatterns step that merges a mined pattern into a stored one
\* stores min(old amountMin, mined amountMin) and max(old amountMax, mined
\* amountMax), and amountMin <= amountMax, amounts of 0 included
C7_AmountRangeWidens ==
    [][lastOp'.op = "minePatterns" =>
          \A i \in DOMAIN dbPatterns, k \in DOMAIN MinedNow :
              SameKey(MinedNow[k], dbPatterns[i]) =>
                  /\ dbPatterns'[i].amountMin =
                         Min(dbPatterns[i].amountMin, MinedNow[k].amountMin)
                  /\ dbPatterns'[i].amountMax =
                         Max(dbPatterns[i].amountMax, MinedNow[k].amountMax)
                  /\ dbPatterns'[i].amountMin <= dbPatterns'[i].amountMax]_vars

\* the store after minePatterns ran once and twice from the current state
MinedOnce == minePatterns(Memory, AllIds)

MinedTwice == minePatterns(MinedOnce, AllIds)

\* C8: a second minePatterns on the same transactions leaves the number of
\* stored patterns, and each one's matchCount, amountMin and amountMax, as
\* the first run left them
C8_MiningIdempotent ==
    /\ Len(MinedTwice.dbPatterns) = Len(MinedOnce.dbPatterns)
    /\ \A i \in DOMAIN MinedOnce.dbPatterns :
          /\ MinedTwice.dbPatterns[i].matchCount
                 = MinedOnce.dbPatterns[i].matchCount
          /\ MinedTwice.dbPatterns[i].amountMin
                 = MinedOnce.dbPatterns[i].amountMin
          /\ MinedTwice.dbPatterns[i].amountMax
                 = MinedOnce.dbPatterns[i].amountMax

\* C8 witness: minePatterns has run on these transactions, the store holds
\* two patterns and one of them a range wider than its mined group's
C8_Witness ==
    /\ lastOp.op = "minePatterns"
    /\ MinedOnce.dbPatterns = dbPatterns
    /\ Len(dbPatterns) >= 2
    /\ \E i \in DOMAIN dbPatterns, k \in DOMAIN MinedNow :
          /\ SameKey(MinedNow[k], dbPatterns[i])
          /\ dbPatterns[i].amountMax > MinedNow[k].amountMax

\* the effect of a feedback step on the pattern store: the referenced
\* pattern's counters grow by the given amounts, nothing else changes in
\* memory, and the stored record equals the one in memory
FeedbackOnPattern(i, accepts, denies) ==
    /\ patterns' = [patterns EXCEPT
                       ![i].acceptCount = @ + accepts,
                       ![i].denyCount = @ + denies]
    /\ dbPatterns'[patterns[i].id] = patterns'[i]

\* C9: denySuggestion on a pending transaction whose pattern is loaded adds
\* 1 to that pattern's denyCount and nothing to its other counters, sets
\* the transaction's categoryId to null, removes the four suggestion fields
\* and persists the pattern and the transaction
C9_DenyEffect ==
    [][\A id \in Ids :
          (/\ lastOp' = [op |-> "denySuggestion", id |-> id, hit |-> TRUE]
           /\ FindPattern(patterns, transactions[id]) # 0)
          => /\ FeedbackOnPattern(FindPattern(patterns, transactions[id]), 0, 1)
             /\ transactions'[id].categoryId = NULL
             /\ HasNoSuggestion(transactions'[id])
             /\ dbTransactions'[id] = transactions'[id]]_vars

\* C9 witness: a denial was recorded; the denied transaction has no category
C9_Witness ==
    /\ lastOp.op = "denySuggestion" /\ lastOp.hit
    /\ transactions[lastOp.id].categoryId = NULL
    /\ dbTransactions[lastOp.id] = transactions[lastOp.id]
    /\ \E i \in DOMAIN patterns :
          /\ patterns[i].denyCount > 0
          /\ dbPatterns[patterns[i].id] = patterns[i]

\* C10: acceptSuggestion on a pending transaction whose pattern is loaded
\* adds 1 to that pattern's acceptCount and nothing to its other counters,
\* keeps the suggested categoryId, removes the four suggestion fields and
\* persists the pattern and the transaction
C10_AcceptEffect ==
    [][\A id \in Ids :
          (/\ lastOp' = [op |-> "acceptSuggestion", id |-> id, hit |-> TRUE]
           /\ FindPattern(patterns, transactions[id]) # 0)
          => LET i == FindPattern(patterns, transactions[id])
             IN  /\ FeedbackOnPattern(i, 1, 0)
                 /\ transactions'[id].categoryId = transactions[id].categoryId
                 /\ transactions'[id].categoryId = patterns[i].categoryId
                 /\ HasNoSuggestion(transactions'[id])
                 /\ dbTransactions'[id] = transactions'[id]]_vars

\* C10 witness: an acceptance was recorded; the transaction has the
\* category of a pattern that has more acceptances than mined matches
C10_Witness ==
    /\ lastOp.op = "acceptSuggestion" /\ lastOp.hit
    /\ HasNoSuggestion(transactions[lastOp.id])
    /\ dbTransactions[lastOp.id] = transactions[lastOp.id]
    /\ \E i \in DOMAIN patterns :
          /\ patterns[i].categoryId = transactions[lastOp.id].categoryId
          /\ patterns[i].acceptCount > patterns[i].matchCount
          /\ dbPatterns[patterns[i].id] = patterns[i]

FeedbackOps == {"acceptSuggestion", "denySuggestion"}

\* C11: acceptSuggestion and denySuggestion on a transaction without a
\* suggestionPatternId return normally, change no transaction and no
\* pattern, in memory or in the store, and request no write
C11_FeedbackWithoutSuggestionIsNoOp ==
    [][\A id \in Ids :
          (/\ lastOp'.op \in FeedbackOps
           /\ lastOp'.id = id
           /\ ~Truthy(transactions[id].suggestionPatternId))
          => /\ transactions' = transactions
             /\ dbTransactions' = dbTransactions
             /\ patterns' = patterns
             /\ dbPatterns' = dbPatterns
             /\ io' = NoIo]_vars

\* C11 witness: feedback was given on a categorized transaction that had no
\* suggestion, while patterns are loaded and another one is pending
C11_Witness ==
    /\ lastOp.op \in FeedbackOps
    /\ ~lastOp.hit
    /\ io = NoIo
    /\ transactions[lastOp.id].categoryId # NULL
    /\ patterns # <<>>
    /\ \E id \in Ids : Truthy(transactions[id].pendingReview)

EngineOps ==
    {"minePatterns", "autoCategorize", "acceptSuggestion", "denySuggestion",
     "acceptAllPending"}

\* the transactions of the list that are not split, in order
NotSplit ==
    LET kept == Filter(AllIds, {id \in Ids : ~transactions[id].isSplit})
    IN  [k \in DOMAIN kept |-> transactions[kept[k]]]

\* C12: no engine operation changes a transaction that has isSplit = true,
\* in memory or in the store, and minePatterns mines the same patterns as
\* it would from the transactions that are not split
C12_SplitUntouchedByEngine ==
    [][lastOp'.op \in EngineOps =>
          /\ \A id \in Ids :
                transactions[id].isSplit =>
                    /\ transactions'[id] = transactions[id]
                    /\ dbTransactions'[id] = dbTransactions[id]
          /\ lastOp'.op = "minePatterns" =>
                MinedPatterns(transactions) = MinedPatterns(NotSplit)]_vars

\* the transactions are at one merchant, of one amount
SameMerchantAndAmount(txs) ==
    \A i, j \in DOMAIN txs :
        /\ txs[i].description = txs[j].description
        /\ txs[i].amount = txs[j].amount

Monthly == [isRecurring |-> TRUE, pattern |-> "monthly"]

\* C13: for three transactions at one merchant and amount dated the 1st,
\* the 3rd and the 30th of consecutive months, detectRecurringPattern
\* returns isRecurring = true with 'monthly' whichever of them is passed,
\* and so does the pattern mined from them; with one other occurrence only
\* it returns isRecurring = false
C13_RecurringOnFirstThirdThirtieth ==
    probe.out # Absent =>
        LET txs == probe.in[1].historicalTransactions
            out == probe.out[1]
        IN  SameMerchantAndAmount(txs) =>
               /\ (/\ Len(txs) = 3
                   /\ {getDate(txs[k]) : k \in DOMAIN txs} = {1, 3, 30})
                  => /\ out.recurrence = Monthly
                     /\ \A k \in DOMAIN out.mined :
                           /\ out.mined[k].isRecurring
                           /\ out.mined[k].recurrencePattern = "monthly"
               /\ Len(txs) = 2 => ~out.recurrence.isRecurring

\* the pattern as it was before any suggestion was denied
BeforeDenials(pattern) == [pattern EXCEPT !.denyCount = 0]

\* C14: in the Walmart scenario, once the denials bring
\* acceptCount / (acceptCount + denyCount) below 0.5, the new transaction
\* scores at most what it scored before any denial, minus 20
C14_DenialsLowerConfidence ==
    \A i \in DOMAIN patterns :
        2 * patterns[i].acceptCount
            < patterns[i].acceptCount + patterns[i].denyCount
        => FracLeq(calculateConfidence(WalmartNew, patterns[i]),
                   FracAdd(calculateConfidence(WalmartNew,
                                               BeforeDenials(patterns[i])),
                           Int2Frac(-20)))

\* C14 witness: the suggestion for the new Walmart transaction has been
\* denied until the accept ratio of the mined pattern fell below 0.5
C14_Witness ==
    /\ transactions[1].description = Walmart1234
    /\ Len(transactions) = 6
    /\ lastOp.op = "denySuggestion" /\ lastOp.hit
    /\ \E i \in DOMAIN patterns :
          /\ patterns[i].matchCount = 5
          /\ patterns[i].denyCount > 0
          /\ 2 * patterns[i].acceptCount
                 < patterns[i].acceptCount + patterns[i].denyCount

WalmartName == <<"W", "a", "l", "m", "a", "r", "t">>

\* C15: mining the five Walmart transactions into an empty store persists
\* exactly one pattern (Walmart, Groceries, matchCount 5, amountMin 40,
\* amountMax 60), and with threshold 70 findBestMatch then returns that
\* pattern for the new 'WALMART #9981' of 45 with confidence >= 70
C15_WalmartScenario ==
    dbPatterns # <<>> =>
        /\ Len(dbPatterns) = 1
        /\ dbPatterns[1].merchantName = WalmartName
        /\ dbPatterns[1].categoryId = Groceries
        /\ dbPatterns[1].matchCount = 5
        /\ dbPatterns[1].amountMin = 40
        /\ dbPatterns[1].amountMax = 60
        /\ patterns = dbPatterns
        /\ dbPatterns[1].denyCount = 0 =>
              LET match == findBestMatch(WalmartNew, patterns, DefaultThreshold)
              IN  /\ match # Absent
                  /\ match[1].pattern = patterns[1]
                  /\ FracLeq(Int2Frac(DefaultThreshold), match[1].confidence)

\* C15 witness: the five transactions were mined and autoCategorize has
\* suggested Groceries for the new transaction
C15_Witness ==
    /\ Len(transactions) = 6
    /\ lastOp.op = "autoCategorize"
    /\ Len(dbPatterns) = 1
    /\ dbPatterns[1].denyCount = 0
    /\ confidenceThreshold = DefaultThreshold
    /\ transactions[6].categoryId = Groceries
    /\ Truthy(transactions[6].pendingReview)

\* C16: calculateSimilarity(a, a) = 100 for a non-empty a,
\* calculateSimilarity(a, b) = calculateSimilarity(b, a), and the result is
\* 0 when either string is empty
C16_SimilarityLaws ==
    probe.out # Absent =>
        LET str1 == probe.in[1].str1
            str2 == probe.in[1].str2
            out == probe.out[1]
        IN  /\ str1 # <<>> => out.self = Int2Frac(100)
            /\ out.forward = out.backward
            /\ (str1 = <<>> \/ str2 = <<>>) => out.forward = Int2Frac(0)
            /\ str1 = <<>> => out.self = Int2Frac(0)

\* C16 witness: two different strings, one containing the other, compared
\* in both directions
C16_Witness ==
    /\ probe.out # Absent
    /\ Len(probe.in[1].str1) > Len(probe.in[1].str2)
    /\ probe.in[1].str2 # <<>>
    /\ probe.out[1].forward = Int2Frac(85)
    /\ probe.out[1].backward = Int2Frac(85)
    /\ probe.out[1].self = Int2Frac(100)

\* the transactions flagged pendingReview
Pending == {id \in Ids : Truthy(transactions[id].pendingReview)}

\* the ids of the transactions the log writes, in the order of the calls
TransactionWrites(log) ==
    LET calls == Filter(log, {c \in Range(log) : c.call = "updateTransaction"})
    IN  [k \in DOMAIN calls |-> calls[k].id]

\* C17: acceptAllPending accepts every pending transaction, in list order,
\* and returns their number: afterwards no transaction is pending, each
\* accepted one keeps its categoryId and has lost the four fields, the
\* others are unchanged, and each loaded pattern's acceptCount has grown by
\* the number of pending transactions that referenced it
C17_AcceptAllPending ==
    [][lastOp'.op = "acceptAllPending" =>
          /\ ~io'.failed
          /\ io'.result = Cardinality(Pending)
          /\ TransactionWrites(io'.log) = Filter(AllIds, Pending)
          /\ \A id \in Ids :
                /\ ~Truthy(transactions'[id].pendingReview)
                /\ id \in Pending =>
                      /\ transactions'[id].categoryId
                             = transactions[id].categoryId
                      /\ HasNoSuggestion(transactions'[id])
                /\ id \notin Pending => transactions'[id] = transactions[id]
          /\ \A i \in DOMAIN patterns :
                /\ patterns'[i].acceptCount =
                       patterns[i].acceptCount
                       + Cardinality({id \in Pending :
                             transactions[id].suggestionPatternId
                                 = Present(patterns[i].id)})
                /\ patterns'[i].denyCount = patterns[i].denyCount]_vars

\* C17 witness: acceptAllPending returned 2 after accepting two
\* transactions that referenced the same pattern
C17_Witness ==
    /\ lastOp.op = "acceptAllPending"
    /\ io.result = 2
    /\ Len(io.log) = 4
    /\ Len(patterns) = 1
    /\ patterns[1].acceptCount = patterns[1].matchCount + 2
    /\ Pending = {}

WritingOps == {"acceptSuggestion", "denySuggestion", "acceptAllPending"}

\* the number of transactions an operation has written successfully
Written(log) ==
    Cardinality({k \in DOMAIN log :
                    log[k].call = "updateTransaction" /\ log[k].ok})

\* C18: when the store rejects a write of acceptSuggestion, denySuggestion
\* or acceptAllPending, the operation fails, the rejected write is the last
\* call it makes (no retry, no further write), and the pending
\* transactions after the one being accepted stay as they were
C18_RejectedWriteFailsOperation ==
    [][lastOp'.op \in WritingOps =>
          LET log == io'.log
              order == Filter(AllIds, Pending)
          IN  /\ io'.failed <=> (\E k \in DOMAIN log : ~log[k].ok)
              /\ \A k \in DOMAIN log : ~log[k].ok => k = Len(log)
              /\ (io'.failed /\ lastOp'.op = "acceptAllPending") =>
                    \A k \in DOMAIN order :
                        k > Written(log) + 1 =>
                            /\ transactions'[order[k]] = transactions[order[k]]
                            /\ dbTransactions'[order[k]]
                                   = dbTransactions[order[k]]]_vars

\* C18 witness: acceptAllPending failed on the write of the first pending
\* transaction, after its pattern was written, and another is still pending
C18_Witness ==
    /\ lastOp.op = "acceptAllPending"
    /\ io.failed
    /\ Len(io.log) = 2
    /\ io.log[1].ok /\ ~io.log[2].ok
    /\ \E id \in Pending : id > io.log[2].id

\* C19: getConfidenceThreshold returns 70 before any call, after
\* setConfidenceThreshold(n) it returns n when 0 <= n <= 100, 0 when n < 0
\* and 100 when n > 100, and no other operation changes it
C19_ThresholdClamped ==
    [][/\ lastOp.op = "constructor" => getConfidenceThreshold = 70
       /\ getConfidenceThreshold' \in 0..100
       /\ IF lastOp'.op = "setConfidenceThreshold"
          THEN getConfidenceThreshold' =
                   IF lastOp'.id < 0 THEN 0
                   ELSE IF lastOp'.id > 100 THEN 100
                   ELSE lastOp'.id
          ELSE getConfidenceThreshold' = getConfidenceThreshold]_vars

\* C19 witness: a negative threshold was set after one above 100 had been
\* clamped to 100 and used
C19_Witness ==
    /\ lastOp.op = "setConfidenceThreshold"
    /\ lastOp.id < 0
    /\ getConfidenceThreshold = 0
    /\ patterns # <<>>

\* C20: a transaction with isSplit = true has categoryId = null, in memory
\* and in the store
C20_SplitHasNoCategory ==
    \A id \in Ids :
        /\ transactions[id].isSplit => transactions[id].categoryId = NULL
        /\ dbTransactions[id].isSplit => dbTransactions[id].categoryId = NULL

\* C21: normalizeMerchant maps every description that begins with the
\* marketplace prefix 'AMZN MKTP' to the merchant name 'Amazon'
C21_AmznMktpIsAmazon ==
    (/\ probe.out # Absent
     /\ lastOp.op = "normalizeMerchant"
     /\ Len(probe.in[1]) >= Len(AmznMktp)
     /\ Take(probe.in[1], Len(AmznMktp)) = AmznMktp)
    => probe.out[1] = <<"A", "m", "a", "z", "o", "n">>

\* C22: for every transaction, calculateConfidence against the pattern a
\* suggestion refers to is no higher after a denySuggestion on it than
\* before, and no lower after an acceptSuggestion than before, whatever
\* the pattern's acceptCount and denyCount were (0 and 0 included)
C22_FeedbackMonotone ==
    [][\A id \in Ids :
          LET i == FindPattern(patterns, transactions[id])
          IN  (lastOp'.id = id /\ lastOp'.hit /\ i # 0) =>
                  \A k \in Ids :
                      LET before == calculateConfidence(transactions[k],
                                                        patterns[i])
                          after  == calculateConfidence(transactions[k],
                                                        patterns'[i])
                      IN  /\ lastOp'.op = "denySuggestion"
                             => FracLeq(after, before)
                          /\ lastOp'.op = "acceptSuggestion"
                             => FracLeq(before, after)]_vars

\* C22 witness: a pattern without any feedback was denied once, and the
\* confidence of the transaction against it is now 20 lower
C22_Witness ==
    /\ lastOp.op = "denySuggestion" /\ lastOp.hit
    /\ patterns[1].acceptCount = 0
    /\ patterns[1].denyCount = 1
    /\ dbPatterns[1] = patterns[1]
    /\ FracAdd(calculateConfidence(transactions[lastOp.id], patterns[1]),
               Int2Frac(LowAcceptPenalty))
           = calculateConfidence(transactions[lastOp.id],
                                 [patterns[1] EXCEPT !.denyCount = 0])

\* the transactions with every pending one put back as it was before
\* autoCategorize suggested a category for it
WithoutSuggestions ==
    [id \in Ids |->
        IF Truthy(transactions[id].pendingReview)
        THEN ClearSuggestion([transactions[id] EXCEPT !.categoryId = NULL])
        ELSE transactions[id]]

\* the transactions of a pattern's merchant and category that are neither
\* pending nor split
Counted(pattern) ==
    {id \in Ids :
        /\ Merchant(transactions[id].description) = pattern.merchantName
        /\ transactions[id].categoryId = pattern.categoryId
        /\ ~Truthy(transactions[id].pendingReview)
        /\ ~transactions[id].isSplit}

\* C23: a minePatterns step stores what mining the same transactions without
\* their suggestions stores, and the matchCount it stores for a mined pair
\* is the number of that pair's transactions that are not pending, those
\* whose suggestion was accepted included
C23_SuggestedNotMined ==
    [][lastOp'.op = "minePatterns" =>
          /\ dbPatterns' =
                 minePatterns([Memory EXCEPT !.transactions = WithoutSuggestions],
                              AllIds).dbPatterns
          /\ patterns' = dbPatterns'
          /\ \A i \in DOMAIN dbPatterns' :
                 Counted(dbPatterns'[i]) # {} =>
                     dbPatterns'[i].matchCount
                         = Cardinality(Counted(dbPatterns'[i]))]_vars

\* C23 witness: minePatterns has run while a transaction was pending on a
\* pattern of its own merchant and category, which counts two transactions
C23_Witness ==
    /\ lastOp.op = "minePatterns"
    /\ \E id \in Ids :
          LET i == FindPattern(patterns, transactions[id])
          IN  /\ Truthy(transactions[id].pendingReview)
              /\ i # 0
              /\ patterns[i].merchantName = Merchant(transactions[id].description)
              /\ patterns[i].categoryId = transactions[id].categoryId
              /\ patterns[i].matchCount = 2
              /\ Cardinality(Counted(patterns[i])) = 2

\* this.rules is ordered by non-increasing priority
RulesSorted ==
    \A j, k \in DOMAIN rulesEngine.rules :
        j < k => rulesEngine.rules[j].priority >= rulesEngine.rules[k].priority

\* findMatchingRule returns a rule that matches and that no matching rule
\* exceeds in priority, and returns null only when no rule matches
BestRuleFound(transaction) ==
    LET rules == rulesEngine.rules
        k == findMatchingRule(rules, transaction)
    IN  IF k = 0 THEN \A j \in DOMAIN rules : ~testRule(rules[j], transaction)
        ELSE /\ testRule(rules[k], transaction)
             /\ \A j \in DOMAIN rules :
                    testRule(rules[j], transaction)
                        => rules[j].priority <= rules[k].priority

C25_NoMatchWithoutSimilarity ==
    (/\ lastOp.op = "findBestMatch"
     /\ probe.out # Absent
     /\ probe.out[1] # Absent)
    => FracLess(Int2Frac(0),
                Similarity(Merchant(probe.in[1].description),
                           probe.out[1][1].pattern.merchantName))

\* C26: feedback recorded while a minePatterns call is suspended is kept:
\* no step of the call lowers the acceptCount or denyCount of a persisted
\* pattern, and when the call finishes this.patterns holds the persisted
\* counters
C26_FeedbackSurvivesConcurrentMining ==
    [][mining # Absent =>
          /\ \A i \in DOMAIN dbPatterns :
                 /\ dbPatterns'[i].acceptCount >= dbPatterns[i].acceptCount
                 /\ dbPatterns'[i].denyCount >= dbPatterns[i].denyCount
          /\ mining' = Absent =>
                 \A i \in DOMAIN dbPatterns :
                     /\ patterns'[i].acceptCount = dbPatterns[i].acceptCount
                     /\ patterns'[i].denyCount = dbPatterns[i].denyCount]_vars

\* a step that changes no pattern and no transaction, in memory or stored
NothingChanges ==
    /\ patterns' = patterns
    /\ dbPatterns' = dbPatterns
    /\ transactions' = transactions
    /\ dbTransactions' = dbTransactions

\* C27: a completed acceptSuggestion or denySuggestion leaves the
\* transaction without a suggestion; from then on acceptSuggestion and
\* denySuggestion on it change no pattern counter and no transaction (a
\* deny after an accept keeps the categoryId), and acceptAllPending leaves
\* it as it is and changes no pattern unless another transaction is pending
C27_OneIncrementPerSuggestion ==
    [][\A id \in Ids :
          /\ (lastOp'.op \in FeedbackOps /\ lastOp'.id = id /\ lastOp'.hit)
             => HasNoSuggestion(transactions'[id])
          /\ (HasNoSuggestion(transactions[id])
              /\ lastOp'.op \in FeedbackOps /\ lastOp'.id = id)
             => NothingChanges
          /\ (HasNoSuggestion(transactions[id])
              /\ lastOp'.op = "acceptAllPending")
             => /\ transactions'[id] = transactions[id]
                /\ dbTransactions'[id] = dbTransactions[id]
                /\ (\A other \in Ids :
                       ~Truthy(transactions[other].pendingReview))
                   => NothingChanges]_vars

\* C27 witness: denySuggestion was called on a transaction whose suggestion
\* had been accepted; it still has the accepted category, and the pattern
\* has no denial
C27_Witness ==
    /\ lastOp.op = "denySuggestion"
    /\ ~lastOp.hit
    /\ History(-40)[lastOp.id].categoryId = NULL
    /\ transactions[lastOp.id].categoryId # NULL
    /\ HasNoSuggestion(transactions[lastOp.id])
    /\ \E i \in DOMAIN patterns :
          /\ patterns[i].categoryId = transactions[lastOp.id].categoryId
          /\ patterns[i].acceptCount > 2
    /\ \A i \in DOMAIN patterns : patterns[i].denyCount = 0

\* C28: a minePatterns step leaves every persisted pattern whose merchant
\* and category have no categorized, non-split, non-pending transaction
\* exactly as it was, and no step lowers the number of persisted patterns
C28_StalePatternsKept ==
    [][/\ Len(dbPatterns') >= Len(dbPatterns)
       /\ lastOp'.op = "minePatterns" =>
              \A i \in DOMAIN dbPatterns :
                  Counted(dbPatterns[i]) = {} =>
                      dbPatterns'[i] = dbPatterns[i]]_vars

\* C28 witness: minePatterns has run while a persisted pattern with a
\* matchCount of 1 had no transaction left, next to a pattern that has one
C28_Witness ==
    /\ lastOp.op = "minePatterns"
    /\ Len(dbPatterns) = 2
    /\ \E i, j \in DOMAIN dbPatterns :
          /\ Counted(dbPatterns[i]) = {}
          /\ dbPatterns[i].matchCount = 1
          /\ Counted(dbPatterns[j]) # {}
          /\ dbPatterns[j].matchCount = Cardinality(Counted(dbPatterns[j]))
    /\ edits > 0

\* the last operation's only store call was an updatePattern that the store
\* rejected
PatternWriteRejected(ioRecord) ==
    /\ ioRecord.failed
    /\ Len(ioRecord.log) = 1
    /\ ioRecord.log[1].call = "updatePattern"
    /\ ~ioRecord.log[1].ok

\* C29: when the store rejects the updatePattern write of acceptSuggestion
\* or denySuggestion, the acceptCount and denyCount of every pattern in
\* memory are what they were before the call, and what the store holds
C29_FailedFeedbackNotCounted ==
    [][(lastOp'.op \in FeedbackOps /\ PatternWriteRejected(io')) =>
          \A i \in DOMAIN patterns :
              /\ patterns'[i].acceptCount = patterns[i].acceptCount
              /\ patterns'[i].denyCount = patterns[i].denyCount
              /\ patterns'[i].acceptCount = dbPatterns'[i].acceptCount
              /\ patterns'[i].denyCount = dbPatterns'[i].denyCount]_vars

\* no transaction carries a suggestion and autoCategorize would make none
Silenced ==
    \A id \in Ids :
        /\ ~Truthy(transactions[id].pendingReview)
        /\ Categorize(transactions[id], patterns, confidenceThreshold)
               = transactions[id]

\* C30: when every suggestion is denied and the transaction is offered to
\* autoCategorize again each time, then after finitely many denials the
\* pattern is no longer suggested, whatever the pattern
C30_DenialsSilencePattern == <>[]Silenced

====
